---- MODULE Spec2Model ----
(***************************************************************************)
(* Model of lib/librumprun_base/config.c: the rumprun boot-time            *)
(* configuration interpreter (rumprun_config and the handlers it drives).  *)
(*                                                                         *)
(* A JSON node (jvalue) is the record [d, n, s, v]: d its kind, n its name *)
(* (the key it is stored under), s its string value (u.s) and v its        *)
(* children in document order (u.v).  C strings are TLA+ strings; strcmp   *)
(* is equality, strlen is Len and snprintf's "%s" is \o.                    *)
(*                                                                         *)
(* Every handler is an operator from the system state record s (boot plan, *)
(* environment, files, effect log, fatal flag) to the state it leaves.     *)
(* errx()/err() set s.fatal; everything after a fatal error is skipped.    *)
(***************************************************************************)
EXTENDS Integers, Sequences, FiniteSets, TLC

VARIABLES cmdline,        \* the boot command line, up to the JSON text
          root,           \* what jparse() returns for the JSON text
          rumprun_bins,   \* the static registry of baked-in programs
          pc,             \* position of rumprun_config
          hj, hi,         \* pass 2 of handle_object on the root: table slot, pair
          rumprun_execs,  \* the boot plan (TAILQ rumprun_execs)
          environ,        \* the process environment
          dirs,           \* directories that exist
          resolv,         \* content of /etc/resolv.conf, or NoFile
          nodes,          \* device nodes that exist
          log,            \* every external effect so far, in order
          invoked,        \* every handler invocation made by handle_object
          diag            \* the diagnostic of the fatal error, if any

vars == <<cmdline, root, rumprun_bins, pc, hj, hi, rumprun_execs, environ,
          dirs, resolv, nodes, log, invoked, diag>>

(***************************************************************************)
(* Bounds of the model.                                                    *)
(***************************************************************************)
MaxRootPairs == 3      \* pairs in the root object (Spec)
MaxRc == 2             \* elements of an rc array (SpecRc)
MaxSysctl == 2         \* pairs of a sysctl object (SpecSysctl)
MaxFail == 4           \* the calls of one root handler the environment may fail
MaxNs == 4             \* entries of dns.nameservers (SpecDns)
MaxSearch == 7         \* entries of dns.search (SpecDns)
MaxAddrs == 2          \* entries of one interface's addrs (SpecAddr)
MaxStoragePairs == 2   \* root pairs of a document of SpecStorage
MaxUnknownPairs == 3   \* root pairs of a document of SpecUnknown
MaxIfs == 2             \* interfaces of an interfaces object (SpecNet)
MaxGw == 1              \* entries of a gateways array (SpecNet)
MaxVnd == 2            \* entries of a blk object (SpecVnd)

NULL == "<NULL>"
NoFile == "<ENOENT>"

(***************************************************************************)
(* JSON nodes.                                                             *)
(***************************************************************************)
JNull(n) == [d |-> "jnull", n |-> n, s |-> "", v |-> <<>>]
JTrue(n) == [d |-> "jtrue", n |-> n, s |-> "", v |-> <<>>]
JFalse(n) == [d |-> "jfalse", n |-> n, s |-> "", v |-> <<>>]
JString(n, str) == [d |-> "jstring", n |-> n, s |-> str, v |-> <<>>]
JNumber(n, str) == [d |-> "jnumber", n |-> n, s |-> str, v |-> <<>>]
JArray(n, elems) == [d |-> "jarray", n |-> n, s |-> "", v |-> elems]
JObject(n, pairs) == [d |-> "jobject", n |-> n, s |-> "", v |-> pairs]
\* a jvalue pointer that is NULL
JNil == [d |-> "nil", n |-> "", s |-> "", v |-> <<>>]

jtypestr(t) ==
    CASE t = "jnull" -> "NULL"
      [] t = "jtrue" -> "BOOLEAN"
      [] t = "jfalse" -> "BOOLEAN"
      [] t = "jstring" -> "STRING"
      [] t = "jarray" -> "ARRAY"
      [] t = "jobject" -> "OBJECT"
      [] OTHER -> "UNKNOWN"

(***************************************************************************)
(* errx()/err(), warnx() and the calls that leave the interpreter.         *)
(***************************************************************************)
\* (mutant) the diagnostic is printed and the run goes on
Fatal_goes_on(s, msg) ==
    [s EXCEPT !.msg = msg,
              !.log = Append(@, [op |-> "errx", args |-> <<msg>>, ok |-> TRUE,
                                 errno |-> "0", by |-> s.by])]

Fatal(s, msg) ==
    [s EXCEPT !.fatal = TRUE, !.msg = msg,
              !.log = Append(@, [op |-> "errx", args |-> <<msg>>, ok |-> TRUE,
                                 errno |-> "0", by |-> s.by])]

Warn(s, msg) ==
    [s EXCEPT !.log = Append(@, [op |-> "warnx", args |-> <<msg>>, ok |-> TRUE,
                                 errno |-> "0", by |-> s.by])]

\* One call of an external capability or system call.  The call whose number
\* (within the running root handler) is in s.fails fails with EIO; any other
\* call ends with errno nat, the outcome the system state gives it.
Sys(s, op, args, nat) ==
    [s EXCEPT !.ncalls = @ + 1,
              !.log = Append(@, [op |-> op, args |-> args,
                                 ok |-> (s.ncalls + 1) \notin s.fails /\ nat = "0",
                                 errno |-> IF (s.ncalls + 1) \in s.fails THEN "EIO"
                                           ELSE nat,
                                 by |-> s.by])]

Call(s, op, args) == Sys(s, op, args, "0")

LastErrno(s) == s.log[Len(s.log)].errno

LastOk(s) == s.log[Len(s.log)].ok

jexpect(t, v, loc, s) ==
    IF v.d # t
    THEN Fatal(s, loc \o ": expected " \o jtypestr(t) \o ", got " \o jtypestr(v.d))
    ELSE s

\* for (i = v->u.v; *i; ++i) Body(*i): stops at the first fatal error
RECURSIVE ForEach(_, _, _, _)
ForEach(Body(_, _), ps, i, s) ==
    IF s.fatal \/ i > Len(ps) THEN s
    ELSE ForEach(Body, ps, i + 1, Body(ps[i], s))

Then(s, F(_)) == IF s.fatal THEN s ELSE F(s)

(***************************************************************************)
(* handle_rc_dummy: one entry per baked-in program.  The entry comes from  *)
(* malloc() and rre_workdir, rre_sc and rre_nsc are never assigned: they   *)
(* hold whatever the allocation held (s.junk).                             *)
(***************************************************************************)
rc_dummy_entry(bin, s) ==
    [rre_flags |-> {},
     rre_main |-> bin.main,
     rre_argc |-> 1,
     rre_argv |-> <<bin.binname, NULL>>,
     rre_workdir |-> s.junk.workdir,
     rre_sc |-> s.junk.sc,
     rre_nsc |-> s.junk.nsc]

\* (mutant) TAILQ_INSERT_HEAD
Insert_head(s, rre) ==
    [s EXCEPT !.execs = <<rre>> \o @,
              !.log = Append(@, [op |-> "TAILQ_INSERT_TAIL", args |-> <<rre>>,
                                 ok |-> TRUE, errno |-> "0", by |-> s.by])]

Insert(s, rre) ==
    [s EXCEPT !.execs = Append(@, rre),
              !.log = Append(@, [op |-> "TAILQ_INSERT_TAIL", args |-> <<rre>>,
                                 ok |-> TRUE, errno |-> "0", by |-> s.by])]

\* (mutant) the loop starts at the second program
handle_rc_dummy_skipfirst(s) ==
    ForEach(LAMBDA bin, t: Insert(t, rc_dummy_entry(bin, t)), s.bins, 2, s)

handle_rc_dummy(s) ==
    ForEach(LAMBDA bin, t: Insert(t, rc_dummy_entry(bin, t)), s.bins, 1, s)

(***************************************************************************)
(* sysctl_parse: [err, key, sc].  jnumber passes the kind check and its    *)
(* value is read through u.s like a string's.                              *)
(***************************************************************************)
\* (mutant) every kind is taken
sysctl_kind_any(d) == TRUE

sysctl_kind_ok(d) == d \in {"jtrue", "jfalse", "jstring", "jnumber"}

sysctl_key(prefix, n) == IF prefix # NULL THEN prefix \o "." \o n ELSE n

\* (mutant) u.s whatever the kind
sysctl_value_raw(p) == p.s

sysctl_value(p) ==
    IF p.d = "jtrue" THEN "1"
    ELSE IF p.d = "jfalse" THEN "0"
    ELSE p.s

sysctl_parse(v, prefix) ==
    LET bad == {i \in 1..Len(v.v) : ~sysctl_kind_ok(v.v[i].d)}
    IN IF bad # {}
       THEN [err |-> TRUE,
             key |-> v.v[CHOOSE i \in bad : \A k \in bad : i <= k].n,
             sc |-> <<>>]
       ELSE [err |-> FALSE, key |-> "",
             sc |-> [i \in 1..Len(v.v) |->
                       [key |-> sysctl_key(prefix, v.v[i].n),
                        value |-> sysctl_value(v.v[i])]]]

(***************************************************************************)
(* getmain.  With an empty registry "*" reads rumprun_bins[0]->main        *)
(* through a NULL pointer: the build either faults or yields some value.   *)
(***************************************************************************)
getmain(binname, s) ==
    IF binname = "*"
    THEN IF Len(s.bins) > 0 THEN s.bins[1].main ELSE s.junk.main
    ELSE LET hit == {i \in 1..Len(s.bins) : s.bins[i].binname = binname}
         IN IF hit = {} THEN NULL
            ELSE s.bins[CHOOSE i \in hit : \A k \in hit : i <= k].main

(***************************************************************************)
(* handle_bin: one element of "rc" becomes one entry of rumprun_execs.     *)
(* The locals v_bin, v_argv, v_runmode, v_workdir, v_sysctl live in s.tmp. *)
(***************************************************************************)
RUMPRUN_EXEC_BACKGROUND == {"BACKGROUND"}
RUMPRUN_EXEC_PIPE == {"PIPE"}

bin_locals ==
    [v_bin |-> JNil, v_argv |-> JNil, v_runmode |-> JNil,
     v_workdir |-> JNil, v_sysctl |-> JNil]

bin_netbsd_key(j, s) ==
    IF j.n = "sysctl"
    THEN Then(jexpect("jobject", j, "handle_bin", s),
              LAMBDA t: [t EXCEPT !.tmp.v_sysctl = j])
    ELSE Fatal(s, "unexpected key \"" \o j.n \o "\" in \"handle_bin\"")

\* (mutant) an unknown key of an rc element is skipped with a warning
bin_key_lenient(i, s) ==
    CASE i.n = "bin" -> [s EXCEPT !.tmp.v_bin = i]
      [] i.n = "argv" -> [s EXCEPT !.tmp.v_argv = i]
      [] i.n = "runmode" -> [s EXCEPT !.tmp.v_runmode = i]
      [] i.n = "workdir" -> [s EXCEPT !.tmp.v_workdir = i]
      [] i.n = "netbsd" -> s
      [] OTHER -> Warn(s, "unexpected key \"" \o i.n \o "\" in \"handle_bin\"")

bin_key(i, s) ==
    CASE i.n = "bin" ->
           Then(jexpect("jstring", i, "handle_bin", s),
                LAMBDA t: [t EXCEPT !.tmp.v_bin = i])
      [] i.n = "argv" ->
           Then(jexpect("jarray", i, "handle_bin", s),
                LAMBDA t: [t EXCEPT !.tmp.v_argv = i])
      [] i.n = "runmode" ->
           Then(jexpect("jstring", i, "handle_bin", s),
                LAMBDA t: [t EXCEPT !.tmp.v_runmode = i])
      [] i.n = "workdir" ->
           Then(jexpect("jstring", i, "handle_bin", s),
                LAMBDA t: [t EXCEPT !.tmp.v_workdir = i])
      [] i.n = "netbsd" ->
           Then(jexpect("jobject", i, "handle_bin", s),
                LAMBDA t: ForEach(bin_netbsd_key, i.v, 1, t))
      [] OTHER ->
           Fatal(s, "unexpected key \"" \o i.n \o "\" in \"handle_bin\"")

\* lines 303-316: count argv (every element a string), default to one slot
bin_nargv(s) ==
    IF s.tmp.v_argv = JNil THEN 0 ELSE Len(s.tmp.v_argv.v)

\* (mutant) have_argv set by the presence of "argv", not by its length
bin_argv_present(s) ==
    IF s.tmp.v_argv # JNil
    THEN [k \in 1..bin_nargv(s) |-> s.tmp.v_argv.v[k].s] \o <<NULL>>
    ELSE <<s.tmp.v_bin.s, NULL>>

bin_argv(s) ==
    IF bin_nargv(s) # 0
    THEN [k \in 1..bin_nargv(s) |-> s.tmp.v_argv.v[k].s] \o <<NULL>>
    ELSE <<s.tmp.v_bin.s, NULL>>

runmode_ok(s) ==
    s.tmp.v_runmode = JNil \/ s.tmp.v_runmode.s \in {"", "&", "|"}

bin_rreflags(s) ==
    IF s.tmp.v_runmode = JNil THEN {}
    ELSE IF s.tmp.v_runmode.s = "" THEN {}
    ELSE IF s.tmp.v_runmode.s = "&" THEN RUMPRUN_EXEC_BACKGROUND
    ELSE RUMPRUN_EXEC_PIPE

\* (mutant) no prefix
bin_sysctl_noprefix(s) ==
    IF s.tmp.v_sysctl = JNil THEN [err |-> FALSE, key |-> "", sc |-> <<>>]
    ELSE sysctl_parse(s.tmp.v_sysctl, NULL)

bin_sysctl(s) ==
    IF s.tmp.v_sysctl = JNil THEN [err |-> FALSE, key |-> "", sc |-> <<>>]
    ELSE sysctl_parse(s.tmp.v_sysctl, "proc.curproc")

bin_entry(binmain, s) ==
    [rre_flags |-> bin_rreflags(s),
     rre_main |-> binmain,
     rre_argc |-> IF bin_nargv(s) # 0 THEN bin_nargv(s) ELSE 1,
     rre_argv |-> bin_argv(s),
     rre_workdir |-> IF s.tmp.v_workdir # JNil THEN s.tmp.v_workdir.s ELSE NULL,
     rre_sc |-> bin_sysctl(s).sc,
     rre_nsc |-> Len(bin_sysctl(s).sc)]

\* lines 297-368, after the keys were scanned
bin_save(s) ==
    IF s.tmp.v_bin = JNil THEN Fatal(s, "missing \"bin\" for rc entry")
    ELSE LET binmain == getmain(s.tmp.v_bin.s, s)
             s1 == IF s.tmp.v_argv = JNil THEN s
                   ELSE ForEach(LAMBDA a, t: jexpect("jstring", a, "handle_bin", t),
                                s.tmp.v_argv.v, 1, s)
         IN IF binmain = "<fault>" THEN Fatal(s, "<fault>")
            ELSE IF binmain = NULL
            THEN Fatal(s, "unknown \"bin\" \"" \o s.tmp.v_bin.s \o "\" in rc entry")
            ELSE IF s1.fatal THEN s1
            ELSE IF ~runmode_ok(s)
            THEN Fatal(s, "invalid runmode \"" \o s.tmp.v_runmode.s
                          \o "\" for bin \"" \o s.tmp.v_bin.s \o "\"")
            ELSE IF bin_sysctl(s).err
            THEN Fatal(s, "invalid type for key \"" \o bin_sysctl(s).key
                          \o "\" in \"sysctl_parse\"")
            ELSE Insert(s, bin_entry(binmain, s))

handle_bin(v, loc, s) ==
    Then(jexpect("jobject", v, "handle_bin", s),
         LAMBDA t: Then(ForEach(bin_key, v.v, 1, [t EXCEPT !.tmp = bin_locals]),
                        bin_save))

handle_rc(v, loc, s) ==
    Then(jexpect("jarray", v, "handle_rc", s),
         LAMBDA t: ForEach(LAMBDA e, u: handle_bin(e, "handle_rc", u), v.v, 1, t))

(***************************************************************************)
(* handle_env                                                              *)
(***************************************************************************)
env_pair(i, s) ==
    Then(jexpect("jstring", i, "handle_env", s),
         LAMBDA t:
           LET t1 == Call(t, "setenv", <<i.n, i.s>>)
           IN IF ~LastOk(t1) THEN Fatal(t1, "setenv")
              ELSE [t1 EXCEPT !.env = [x \in DOMAIN @ \cup {i.n} |->
                                        IF x = i.n THEN i.s ELSE @[x]]])

handle_env(v, loc, s) ==
    Then(jexpect("jobject", v, "handle_env", s),
         LAMBDA t: ForEach(env_pair, v.v, 1, t))

(***************************************************************************)
(* handle_sysctl: root netbsd.sysctl, applied with rumprun_sysctlw         *)
(***************************************************************************)
\* (mutant) the result of rumprun_sysctlw is not looked at
sysctl_write_ignore(sc, s) == Call(s, "rumprun_sysctlw", <<sc.key, sc.value>>)

sysctl_write(sc, s) ==
    LET s1 == Call(s, "rumprun_sysctlw", <<sc.key, sc.value>>)
    IN IF ~LastOk(s1)
       THEN Fatal(s1, "error writing sysctl key \"" \o sc.key \o "\"")
       ELSE s1

handle_sysctl(v, loc, s) ==
    Then(jexpect("jobject", v, "handle_sysctl", s),
         LAMBDA t:
           LET r == sysctl_parse(v, NULL)
           IN IF r.err
              THEN Fatal(t, "invalid type for key \"" \o r.key
                            \o "\" in \"sysctl_parse\"")
              ELSE ForEach(sysctl_write, r.sc, 1, t))

(***************************************************************************)
(* C string helpers: strchr, strspn/strcspn on "/", atoi, sscanf("%d").    *)
(***************************************************************************)
CharAt(str, k) == SubSeq(str, k, k)

\* first position >= from holding (or, with want = FALSE, not holding) c;
\* Len(str) + 1 when there is none
RECURSIVE Scan(_, _, _, _)
Scan(str, c, want, from) ==
    IF from > Len(str) THEN Len(str) + 1
    ELSE IF (CharAt(str, from) = c) = want THEN from
    ELSE Scan(str, c, want, from + 1)

Digits == <<"0", "1", "2", "3", "4", "5", "6", "7", "8", "9">>
IsDigit(c) == \E k \in 1..Len(Digits) : Digits[k] = c
DigitVal(c) == (CHOOSE k \in 1..Len(Digits) : Digits[k] = c) - 1

\* the decimal digits of str from position k: [val, next]
RECURSIVE ScanDigits(_, _, _)
ScanDigits(str, k, acc) ==
    IF k <= Len(str) /\ IsDigit(CharAt(str, k))
    THEN ScanDigits(str, k + 1, acc * 10 + DigitVal(CharAt(str, k)))
    ELSE [val |-> acc, next |-> k]

\* "%d" at position k: white space, an optional sign, digits: [ok, val]
ScanInt(str, k) ==
    LET k1 == Scan(str, " ", FALSE, k)
        neg == k1 <= Len(str) /\ CharAt(str, k1) = "-"
        k2 == IF k1 <= Len(str) /\ CharAt(str, k1) \in {"-", "+"}
              THEN k1 + 1 ELSE k1
        r == ScanDigits(str, k2, 0)
    IN [ok |-> r.next > k2, val |-> IF neg THEN 0 - r.val ELSE r.val,
        next |-> r.next]

atoi(str) == ScanInt(str, 1).val

(***************************************************************************)
(* Block devices: handle_blks, handle_blk, configetfs, configvnd           *)
(***************************************************************************)
\* snprintf(buf, size, ...): at most size - 1 characters are stored
Snprintf(size, str) == SubSeq(str, 1, IF Len(str) < size THEN Len(str) ELSE size - 1)

RAW_PART == "d"

makevnddev(israw, unit, part) ==
    Snprintf(32, "/dev/" \o (IF israw THEN "r" ELSE "") \o "vnd"
                 \o ToString(unit) \o part)

\* stat() of the unit 0 node; fatal when it is not there
getvndmajor(israw, s) ==
    LET path == makevnddev(israw, 0, RAW_PART)
        s1 == Sys(s, "stat", <<path>>, IF path \in s.nodes THEN "0" ELSE "ENOENT")
    IN IF ~LastOk(s1) THEN Fatal(s1, "failed to stat " \o path) ELSE s1

vnd_mknod(path, s) ==
    LET s1 == Sys(s, "mknod", <<path>>, IF path \in s.nodes THEN "EEXIST" ELSE "0")
    IN IF ~LastOk(s1) THEN Fatal(s1, "configvnd: mknod " \o path)
       ELSE [s1 EXCEPT !.nodes = @ \cup {path}]

vnd_open(path, s) ==
    Sys(s, "open", <<path>>, IF path \in s.nodes THEN "0" ELSE "ENOENT")

vnd_ioctl(rbuf, path, s) ==
    LET s1 == Call(s, "ioctl", <<"VNDIOCSET", rbuf, path, "VNDIOF_READONLY">>)
    IN IF ~LastOk(s1) THEN Fatal(s1, "configvnd: VNDIOCSET on " \o rbuf \o " failed")
       ELSE s1

configvnd(dev, path, s) ==
    LET sc == IF SubSeq(dev, 1, 3) = "vnd" THEN ScanInt(dev, 4)
              ELSE [ok |-> FALSE, val |-> 0, next |-> 1]
        bbuf == makevnddev(FALSE, sc.val, RAW_PART)
        rbuf == makevnddev(TRUE, sc.val, RAW_PART)
        s1 == vnd_open(rbuf, s)
        \* the node does not exist: create both nodes and open again
        s2 == Then(getvndmajor(FALSE, s1), LAMBDA t:
              Then(getvndmajor(TRUE, t), LAMBDA u:
              Then(vnd_mknod(bbuf, u), LAMBDA w:
              Then(vnd_mknod(rbuf, w), LAMBDA x: vnd_open(rbuf, x)))))
    IN IF ~sc.ok THEN Fatal(s, "configvnd: invalid vnd name \"" \o dev \o "\"")
       ELSE IF LastOk(s1) THEN vnd_ioctl(rbuf, path, s1)
       ELSE IF LastErrno(s1) # "ENOENT" THEN Fatal(s1, "configvnd: open(" \o rbuf \o ")")
       ELSE IF s2.fatal THEN s2
       ELSE IF ~LastOk(s2) THEN Fatal(s2, "configvnd: open(" \o rbuf \o ")")
       ELSE vnd_ioctl(rbuf, path, s2)

configetfs(dev, hostpath, hard, s) ==
    LET key == Snprintf(32, "/dev/" \o dev)
        s1 == Call(s, "rump_pub_etfs_register", <<key, hostpath, "RUMP_ETFS_BLK">>)
    IN IF ~LastOk(s1) /\ hard
       THEN Fatal(s1, "etfs register for \"" \o hostpath \o "\" failed")
       ELSE IF LastOk(s1) THEN [s1 EXCEPT !.nodes = @ \cup {key}]
       ELSE s1

blk_key(dev, i, s) ==
    CASE i.n = "type" ->
           Then(jexpect("jstring", i, "handle_blk", s),
                LAMBDA t: [t EXCEPT !.tmp.type = i.s])
      [] i.n = "path" ->
           Then(jexpect("jstring", i, "handle_blk", s),
                LAMBDA t: [t EXCEPT !.tmp.path = i.s])
      [] OTHER ->
           Fatal(s, "handle_blk: unexpected key \"" \o i.n \o "\" in \"" \o dev \o "\"")

blk_config(dev, s) ==
    IF s.tmp.type = NULL \/ s.tmp.path = NULL
    THEN Fatal(s, "handle_blk: missing \"path\"/\"type\" in \"" \o dev \o "\"")
    ELSE IF s.tmp.type = "etfs" THEN configetfs(dev, s.tmp.path, TRUE, s)
    ELSE IF s.tmp.type = "vnd" THEN configvnd(dev, s.tmp.path, s)
    ELSE Fatal(s, "handle_blk: unsupported type \"" \o s.tmp.type
                  \o "\" in \"" \o dev \o "\"")

handle_blk(v, loc, s) ==
    Then(jexpect("jobject", v, "handle_blk", s), LAMBDA t:
    Then(ForEach(LAMBDA i, u: blk_key(v.n, i, u), v.v, 1,
                 [t EXCEPT !.tmp = [type |-> NULL, path |-> NULL]]),
         LAMBDA u: blk_config(v.n, u)))

handle_blks(v, loc, s) ==
    Then(jexpect("jobject", v, "handle_blks", s),
         LAMBDA t: ForEach(LAMBDA i, u: handle_blk(i, "handle_blks", u), v.v, 1, t))

(***************************************************************************)
(* Mounts: handle_mounts, handle_mount, mkdirhier, the mounters            *)
(***************************************************************************)
\* the directory a path names: trailing slashes do not count
RECURSIVE DirOf(_)
DirOf(path) ==
    IF Len(path) > 1 /\ CharAt(path, Len(path)) = "/"
    THEN DirOf(SubSeq(path, 1, Len(path) - 1))
    ELSE path

mkdir(path, s) ==
    LET s1 == Sys(s, "mkdir", <<path>>,
                  IF path = "" THEN "ENOENT"
                  ELSE IF DirOf(path) \in s.dirs THEN "EEXIST" ELSE "0")
    IN IF LastOk(s1) THEN [s1 EXCEPT !.dirs = @ \cup {DirOf(path)}] ELSE s1

\* one round of the loop of mkdirhier, the chunk pointer at position pos
RECURSIVE mkdirhier_chunk(_, _, _)
mkdirhier_chunk(path, pos, s) ==
    LET p1 == Scan(path, "/", FALSE, pos)
        p2 == Scan(path, "/", TRUE, p1)
        s1 == mkdir(SubSeq(path, 1, p2 - 1), s)
    IN IF ~LastOk(s1) /\ LastErrno(s1) # "EEXIST"
       THEN Fatal(s1, "mkdirhier: mkdir(\"" \o SubSeq(path, 1, p2 - 1) \o "\") failed")
       ELSE IF p2 > Len(path) THEN s1
       ELSE mkdirhier_chunk(path, p2, s1)

mkdirhier(path, s) == mkdirhier_chunk(path, 1, s)

\* mount(2): succeeds unless the environment fails it
mount(type, mp, flags, fspec, s) == Call(s, "mount", <<type, mp, flags, fspec>>)

\* (mutant) EXT2FS is tried before FFS
mount_blk_ext2_first(dev, mp, options, s) ==
    IF dev = NULL THEN [s EXCEPT !.tmp.mounted = FALSE]
    ELSE LET s1 == mount("MOUNT_EXT2FS", mp, "0", dev, s)
             s2 == mount("MOUNT_FFS", mp, "0", dev, s1)
             s3 == mount("MOUNT_CD9660", mp, "MNT_RDONLY", dev, s2)
         IN IF LastOk(s1) THEN [s1 EXCEPT !.tmp.mounted = TRUE]
            ELSE IF LastOk(s2) THEN [s2 EXCEPT !.tmp.mounted = TRUE]
            ELSE [s3 EXCEPT !.tmp.mounted = LastOk(s3)]

\* each mounter leaves its verdict in s.tmp.mounted
mount_blk(dev, mp, options, s) ==
    IF dev = NULL THEN [s EXCEPT !.tmp.mounted = FALSE]
    ELSE LET s1 == mount("MOUNT_FFS", mp, "0", dev, s)
             s2 == mount("MOUNT_EXT2FS", mp, "0", dev, s1)
             s3 == mount("MOUNT_CD9660", mp, "MNT_RDONLY", dev, s2)
         IN IF LastOk(s1) THEN [s1 EXCEPT !.tmp.mounted = TRUE]
            ELSE IF LastOk(s2) THEN [s2 EXCEPT !.tmp.mounted = TRUE]
            ELSE [s3 EXCEPT !.tmp.mounted = LastOk(s3)]

mount_kernfs(dev, mp, options, s) ==
    LET s1 == mount("MOUNT_KERNFS", mp, "0", NULL, s)
    IN [s1 EXCEPT !.tmp.mounted = LastOk(s1)]

\* dehumanize_number(3): digits and an optional size suffix; [ok, val]
SizeSuffix == <<"b", "k", "m", "g">>
SuffixRank(c) ==
    IF \E k \in 1..Len(SizeSuffix) : c \in {SizeSuffix[k]}
    THEN CHOOSE k \in 1..Len(SizeSuffix) : c = SizeSuffix[k]
    ELSE IF c = "K" THEN 2 ELSE IF c = "M" THEN 3 ELSE IF c = "G" THEN 4 ELSE 0

dehumanize_number(str) ==
    LET r == ScanInt(str, 1)
        rest == Len(str) - r.next + 1
        rank == IF rest = 1 THEN SuffixRank(CharAt(str, r.next)) ELSE 0
    IN IF ~r.ok \/ rest > 1 \/ (rest = 1 /\ rank = 0) THEN [ok |-> FALSE, val |-> 0]
       ELSE IF rest = 0 THEN [ok |-> TRUE, val |-> r.val]
       ELSE [ok |-> TRUE, val |-> r.val * 1024 ^ (rank - 1)]

tmpfs_option(i, s) ==
    IF i.n = "size"
    THEN Then(jexpect("jstring", i, "mount_tmpfs", s),
              LAMBDA t: [t EXCEPT !.tmp.opt_size = i.s])
    ELSE Fatal(s, "mount_tmpfs: unexpected key \"" \o i.n \o "\" in \"options\"")

mount_tmpfs(dev, mp, options, s) ==
    LET s0 == [s EXCEPT !.tmp.opt_size = NULL]
        s1 == IF options = JNil THEN s0
              ELSE Then(jexpect("jobject", options, "mount_tmpfs", s0),
                        LAMBDA t: ForEach(tmpfs_option, options.v, 1, t))
        size == dehumanize_number(IF s1.tmp.opt_size = NULL THEN "1M"
                                  ELSE s1.tmp.opt_size)
        s2 == Call(s1, "mount", <<"MOUNT_TMPFS", mp, "0", ToString(size.val)>>)
    IN IF s1.fatal THEN s1
       ELSE IF ~size.ok THEN Fatal(s1, "mount_tmpfs: bad size for " \o mp)
       ELSE [s2 EXCEPT !.tmp.mounted = LastOk(s2)]

mounters == <<"blk", "kernfs", "tmpfs">>

mt_mount(source, dev, mp, options, s) ==
    CASE source = "blk" -> mount_blk(dev, mp, options, s)
      [] source = "kernfs" -> mount_kernfs(dev, mp, options, s)
      [] source = "tmpfs" -> mount_tmpfs(dev, mp, options, s)

mount_key(mp, i, s) ==
    CASE i.n = "source" ->
           Then(jexpect("jstring", i, "handle_mount", s),
                LAMBDA t: [t EXCEPT !.tmp.source = i.s])
      [] i.n = "path" ->
           Then(jexpect("jstring", i, "handle_mount", s),
                LAMBDA t: [t EXCEPT !.tmp.path = i.s])
      [] i.n = "options" ->
           Then(jexpect("jobject", i, "handle_mount", s),
                LAMBDA t: [t EXCEPT !.tmp.options = i])
      [] OTHER ->
           Fatal(s, "handle_mount: unexpected key \"" \o i.n \o "\" in \"" \o mp \o "\"")

\* lines 996-1015, after the keys were scanned
mount_do(mp, s) ==
    IF s.tmp.source = NULL
    THEN Fatal(s, "handle_mount: missing \"source\" in \"" \o mp \o "\"")
    ELSE LET s1 == mkdirhier(mp, s)
             s2 == mt_mount(s.tmp.source, s.tmp.path, mp, s.tmp.options, s1)
         IN IF s1.fatal THEN s1
            ELSE IF \A k \in 1..Len(mounters) : mounters[k] # s.tmp.source
            THEN Fatal(s1, "handle_mount: unknown source \"" \o s.tmp.source
                           \o "\" in \"" \o mp \o "\"")
            ELSE IF s2.fatal THEN s2
            ELSE IF ~s2.tmp.mounted
            THEN Fatal(s2, "handle_mount: mount on \"" \o mp \o "\" type \""
                           \o s.tmp.source \o "\" failed")
            ELSE s2

handle_mount(v, loc, s) ==
    Then(jexpect("jobject", v, "handle_mount", s), LAMBDA t:
    Then(ForEach(LAMBDA i, u: mount_key(v.n, i, u), v.v, 1,
                 [t EXCEPT !.tmp = [source |-> NULL, path |-> NULL,
                                    options |-> JNil, mounted |-> FALSE,
                                    opt_size |-> NULL]]),
         LAMBDA u: mount_do(v.n, u)))

handle_mounts(v, loc, s) ==
    Then(jexpect("jobject", v, "handle_mounts", s),
         LAMBDA t: ForEach(LAMBDA i, u: handle_mount(i, "handle_mounts", u), v.v, 1, t))

(***************************************************************************)
(* Network: interfaces, gateways                                           *)
(***************************************************************************)
\* (*i)->u.s read with no check of the node's kind: the string of a string
\* node, and whatever the union holds (s.junk.str) for any other kind
us(i, s) == IF i.d \in {"jstring", "jnumber"} THEN i.s ELSE s.junk.str

\* (mutant) the address split at the last '/'
config_static_lastslash(fn, capability, ifname, cidr, s) ==
    LET last == CHOOSE p \in 0..Len(cidr) :
                  /\ p > 0 => CharAt(cidr, p) = "/"
                  /\ \A q \in p + 1..Len(cidr) : CharAt(cidr, q) # "/"
        addr == SubSeq(cidr, 1, last - 1)
        mask == SubSeq(cidr, last + 1, Len(cidr))
        s1 == Call(s, capability, <<ifname, addr, atoi(mask)>>)
    IN IF cidr = NULL \/ last = 0 THEN Fatal(s, fn \o ": " \o ifname \o ": invalid \"addr\"")
       ELSE IF ~LastOk(s1) THEN Fatal(s1, fn \o ": " \o ifname \o ": ifconfig failed")
       ELSE s1

\* the "static" branch shared by config_ipv4 and config_ipv6
config_static(fn, capability, ifname, cidr, s) ==
    LET slash == Scan(cidr, "/", TRUE, 1)
        addr == SubSeq(cidr, 1, slash - 1)
        mask == SubSeq(cidr, slash + 1, Len(cidr))
        s1 == Call(s, capability, <<ifname, addr, atoi(mask)>>)
    IN IF cidr = NULL THEN Fatal(s, fn \o ": " \o ifname \o ": missing \"addr\"")
       ELSE IF slash > Len(cidr)
       THEN Fatal(s, fn \o ": " \o ifname \o ": invalid \"addr\" specified")
       ELSE IF ~LastOk(s1)
       THEN Fatal(s1, fn \o ": " \o ifname \o ": ifconfig \"" \o addr \o "/"
                      \o mask \o "\" failed")
       ELSE s1

config_ipv4(ifname, method, cidr, s) ==
    IF method = "dhcp"
    THEN LET s1 == Call(s, "rump_pub_netconfig_dhcp_ipv4_oneshot", <<ifname>>)
         IN IF ~LastOk(s1)
            THEN Fatal(s1, "config_ipv4: " \o ifname \o ": configuring dhcp failed")
            ELSE s1
    ELSE IF method = "static"
    THEN config_static("config_ipv4", "rump_pub_netconfig_ipv4_ifaddr_cidr",
                       ifname, cidr, s)
    ELSE Fatal(s, "config_ipv4: " \o ifname
                  \o ": method \"static\" or \"dhcp\" expected, got \"" \o method \o "\"")

\* (mutant) every method but "static" is taken for "auto"
config_ipv6_lenient(ifname, method, addrmask, s) ==
    IF method # "static"
    THEN LET s1 == Call(s, "rump_pub_netconfig_auto_ipv6", <<ifname>>)
         IN IF ~LastOk(s1)
            THEN Fatal(s1, "config_ipv6: " \o ifname \o ": ipv6 autoconfig failed")
            ELSE s1
    ELSE config_static("config_ipv6", "rump_pub_netconfig_ipv6_ifaddr",
                       ifname, addrmask, s)

config_ipv6(ifname, method, addrmask, s) ==
    IF method = "auto"
    THEN LET s1 == Call(s, "rump_pub_netconfig_auto_ipv6", <<ifname>>)
         IN IF ~LastOk(s1)
            THEN Fatal(s1, "config_ipv6: " \o ifname \o ": ipv6 autoconfig failed")
            ELSE s1
    ELSE IF method = "static"
    THEN config_static("config_ipv6", "rump_pub_netconfig_ipv6_ifaddr",
                       ifname, addrmask, s)
    ELSE Fatal(s, "config_ipv6: " \o ifname
                  \o ": method \"static\" or \"auto\" expected, got \"" \o method \o "\"")

interface_key(ifname, i, s) ==
    CASE i.n = "create" ->
           IF i.d # "jtrue" /\ i.d # "jfalse"
           THEN Fatal(s, "handle_interface: expected BOOLEAN for key\"create\" in \""
                         \o ifname \o "\"")
           ELSE [s EXCEPT !.tmp.create = i]
      [] i.n = "addrs" ->
           Then(jexpect("jarray", i, "handle_interface", s),
                LAMBDA t: [t EXCEPT !.tmp.addrs = i])
      [] OTHER ->
           Warn(s, "handle_interface: unexpected key \"" \o i.n \o "\" in \""
                   \o ifname \o "\", ignored")

addr_key(ifname, i, s) ==
    CASE i.n = "type" -> [s EXCEPT !.tmp.type = us(i, s)]
      [] i.n = "method" -> [s EXCEPT !.tmp.method = us(i, s)]
      [] i.n = "addr" -> [s EXCEPT !.tmp.addr = us(i, s)]
      [] OTHER ->
           Warn(s, "handle_interface: unexpected key \"" \o i.n \o "\" in \""
                   \o ifname \o ".addrs[]\"")

\* lines 537-548
addr_config(ifname, s) ==
    IF s.tmp.type = NULL \/ s.tmp.method = NULL
    THEN Fatal(s, "handle_interface: missing type/method in \"" \o ifname
                  \o ".addrs[]\"")
    ELSE IF s.tmp.type = "inet"
    THEN config_ipv4(ifname, s.tmp.method, s.tmp.addr, s)
    ELSE IF s.tmp.type = "inet6"
    THEN config_ipv6(ifname, s.tmp.method, s.tmp.addr, s)
    ELSE Fatal(s, "handle_interface: address type \"" \o s.tmp.type
                  \o "\" not supported in \"" \o ifname \o ".addrs[]\"")

\* one round of the loop of lines 519-549
interface_addr(ifname, a, s) ==
    Then(jexpect("jobject", a, "handle_interface", s), LAMBDA t:
    Then(ForEach(LAMBDA i, u: addr_key(ifname, i, u), a.v, 1,
                 [t EXCEPT !.tmp.type = NULL, !.tmp.method = NULL,
                           !.tmp.addr = NULL]),
         LAMBDA u: addr_config(ifname, u)))

\* (mutant) the interface is created whenever "create" is given
interface_config_create_given(ifname, s) ==
    LET s1 == IF s.tmp.create # JNil
              THEN LET c == Call(s, "rump_pub_netconfig_ifcreate", <<ifname>>)
                   IN IF ~LastOk(c)
                      THEN Fatal(c, "handle_interface: ifcreate(" \o ifname \o ") failed")
                      ELSE c
              ELSE s
    IN IF s1.fatal THEN s1
       ELSE IF s.tmp.addrs = JNil
       THEN Warn(s1, "handle_interface: no addresses configured for interface \""
                     \o ifname \o "\"")
       ELSE ForEach(LAMBDA a, u: interface_addr(ifname, a, u), s.tmp.addrs.v, 1, s1)

\* lines 506-549, after the keys were scanned
interface_config(ifname, s) ==
    LET s1 == IF s.tmp.create # JNil /\ s.tmp.create.d = "jtrue"
              THEN LET c == Call(s, "rump_pub_netconfig_ifcreate", <<ifname>>)
                   IN IF ~LastOk(c)
                      THEN Fatal(c, "handle_interface: ifcreate(" \o ifname \o ") failed")
                      ELSE c
              ELSE s
    IN IF s1.fatal THEN s1
       ELSE IF s.tmp.addrs = JNil
       THEN Warn(s1, "handle_interface: no addresses configured for interface \""
                     \o ifname \o "\"")
       ELSE ForEach(LAMBDA a, u: interface_addr(ifname, a, u), s.tmp.addrs.v, 1, s1)

handle_interface(v, loc, s) ==
    Then(jexpect("jobject", v, "handle_interface", s), LAMBDA t:
    Then(ForEach(LAMBDA i, u: interface_key(v.n, i, u), v.v, 1,
                 [t EXCEPT !.tmp = [create |-> JNil, addrs |-> JNil, type |-> NULL,
                                    method |-> NULL, addr |-> NULL]]),
         LAMBDA u: interface_config(v.n, u)))

handle_interfaces(v, loc, s) ==
    Then(jexpect("jobject", v, "handle_interfaces", s),
         LAMBDA t: ForEach(LAMBDA i, u: handle_interface(i, "handle_interfaces", u),
                           v.v, 1, t))

gateway_key(i, s) ==
    CASE i.n = "type" -> [s EXCEPT !.tmp.type = us(i, s)]
      [] i.n = "addr" -> [s EXCEPT !.tmp.addr = us(i, s)]
      [] OTHER ->
           Warn(s, "handle_gateways: unexpected key \"" \o i.n
                   \o "\" in gateways[], ignored")

\* lines 587-604
gateway_add(s) ==
    IF s.tmp.type = NULL \/ s.tmp.addr = NULL
    THEN Fatal(s, "handle_gateways: missing type/addr in gateways[]")
    ELSE IF s.tmp.type \in {"inet", "inet6"}
    THEN LET s1 == Call(s, IF s.tmp.type = "inet" THEN "rump_pub_netconfig_ipv4_gw"
                           ELSE "rump_pub_netconfig_ipv6_gw", <<s.tmp.addr>>)
         IN IF ~LastOk(s1)
            THEN Fatal(s1, "handle_gateways: gw \"" \o s.tmp.addr
                           \o "\" addition failed")
            ELSE s1
    ELSE Fatal(s, "handle_gateways: gateway type \"" \o s.tmp.type
                  \o "\" not supported in gateways[]")

gateway(a, s) ==
    Then(jexpect("jobject", a, "handle_gateways", s), LAMBDA t:
    Then(ForEach(gateway_key, a.v, 1, [t EXCEPT !.tmp = [type |-> NULL, addr |-> NULL]]),
         gateway_add))

handle_gateways(v, loc, s) ==
    Then(jexpect("jarray", v, "handle_gateways", s),
         LAMBDA t: ForEach(gateway, v.v, 1, t))

(***************************************************************************)
(* handle_dns: /etc/resolv.conf                                            *)
(***************************************************************************)
MAXNS == 3
MAXDNSRCH == 6
ResolvLine == 1024

\* write(fd, data, len) at the descriptor's offset s.tmp.off: the bytes under
\* the data are replaced, the bytes after it stay
write(data, s) ==
    LET s1 == Call(s, "write", <<"/etc/resolv.conf", data>>)
        old == s.resolv
        end == s.tmp.off + Len(data)
    IN IF ~LastOk(s1) THEN Fatal(s1, "handle_dns: write")
       ELSE [s1 EXCEPT !.resolv = SubSeq(old, 1, s.tmp.off) \o data
                                  \o SubSeq(old, end + 1, Len(old)),
                       !.tmp.off = end]

\* open("/etc/resolv.conf", O_WRONLY | O_CREAT, 0644): creates, never truncates
dns_open(s) ==
    LET s1 == Call(s, "open", <<"/etc/resolv.conf", "O_WRONLY|O_CREAT">>)
    IN IF ~LastOk(s1) THEN Fatal(s1, "handle_dns: open(\"/etc/resolv.conf\")")
       ELSE [s1 EXCEPT !.resolv = IF @ = NoFile THEN "" ELSE @, !.tmp.off = 0]

dns_mkdir(s) ==
    LET s1 == mkdir("/etc", s)
    IN IF ~LastOk(s1) /\ LastErrno(s1) # "EEXIST"
       THEN Fatal(s1, "handle_dns: mkdir(\"/etc\")")
       ELSE s1

dns_key(i, s) ==
    CASE i.n = "nameservers" ->
           Then(jexpect("jarray", i, "handle_dns", s),
                LAMBDA t: [t EXCEPT !.tmp.nameservers = i])
      [] i.n = "search" ->
           Then(jexpect("jarray", i, "handle_dns", s),
                LAMBDA t: [t EXCEPT !.tmp.search = i])
      [] OTHER ->
           Warn(s, "handle_dns: unexpected key \"" \o i.n \o "\", ignored")

\* one round of the loop of lines 658-673
dns_nameserver(i, s) ==
    Then(jexpect("jstring", i, "handle_dns", s), LAMBDA t:
      LET line == "nameserver " \o i.s \o "\n"
      IN IF t.tmp.n + 1 > MAXNS
         THEN Fatal(t, "handle_dns: too many nameservers (max 3)")
         ELSE IF Len(line) >= t.tmp.maxlen
         THEN Fatal(t, "handle_dns: nameserver \"" \o i.s \o "\" too long")
         ELSE write(line, [t EXCEPT !.tmp.n = @ + 1]))

\* one round of the loop of lines 682-697; last: *(i+1) == NULL
dns_search(i, last, s) ==
    Then(jexpect("jstring", i, "handle_dns", s), LAMBDA t:
      LET piece == (IF t.tmp.n + 1 = 1 THEN "search" ELSE "") \o " " \o i.s
                   \o (IF last THEN "\n" ELSE "")
      IN IF t.tmp.n + 1 > MAXDNSRCH
         THEN Fatal(t, "handle_dns: too many search domains (max 6)")
         ELSE IF Len(piece) >= t.tmp.maxlen
         THEN Fatal(t, "handle_dns: search list too long")
         ELSE [t EXCEPT !.tmp.n = @ + 1, !.tmp.maxlen = @ - Len(piece),
                        !.tmp.buf = @ \o piece])

RECURSIVE dns_search_loop(_, _, _)
dns_search_loop(ps, k, s) ==
    IF s.fatal \/ k > Len(ps) THEN s
    ELSE dns_search_loop(ps, k + 1, dns_search(ps[k], k = Len(ps), s))

\* lines 631-706, after the keys were scanned
dns_write(s) ==
    IF s.tmp.nameservers = JNil /\ s.tmp.search = JNil THEN s
    ELSE
      LET s1 == Then(dns_mkdir(s), dns_open)
          s2 == [s1 EXCEPT !.tmp.maxlen = Len("search ") + ResolvLine + 2,
                           !.tmp.n = 0]
          s3 == IF s.tmp.nameservers = JNil THEN s2
                ELSE ForEach(dns_nameserver, s.tmp.nameservers.v, 1, s2)
          s4 == IF s.tmp.search = JNil THEN s3
                ELSE dns_search_loop(s.tmp.search.v, 1,
                                     [s3 EXCEPT !.tmp.n = 0, !.tmp.buf = ""])
      IN IF s1.fatal THEN s1
         ELSE IF s3.fatal THEN s3
         ELSE IF s4.fatal \/ s.tmp.search = JNil \/ s4.tmp.n = 0 THEN s4
         ELSE write(s4.tmp.buf, s4)

handle_dns(v, loc, s) ==
    Then(jexpect("jobject", v, "handle_dns", s), LAMBDA t:
    Then(ForEach(dns_key, v.v, 1,
                 [t EXCEPT !.tmp = [nameservers |-> JNil, search |-> JNil,
                                    off |-> 0, n |-> 0, maxlen |-> 0, buf |-> ""]]),
         dns_write))

(***************************************************************************)
(* The handler tables and handle_object                                    *)
(***************************************************************************)
\* (mutant) the table in the order of the documentation's example
handlers_net_dns_first ==
    <<[name |-> "dns", handler |-> "handle_dns"],
      [name |-> "gateways", handler |-> "handle_gateways"],
      [name |-> "interfaces", handler |-> "handle_interfaces"]>>

handlers_net ==
    <<[name |-> "interfaces", handler |-> "handle_interfaces"],
      [name |-> "gateways", handler |-> "handle_gateways"],
      [name |-> "dns", handler |-> "handle_dns"]>>

handlers_netbsd ==
    <<[name |-> "sysctl", handler |-> "handle_sysctl"]>>

handlers_root ==
    <<[name |-> "netbsd", handler |-> "handle_netbsd"],
      [name |-> "rc", handler |-> "handle_rc"],
      [name |-> "env", handler |-> "handle_env"],
      [name |-> "blk", handler |-> "handle_blks"],
      [name |-> "mount", handler |-> "handle_mounts"],
      [name |-> "net", handler |-> "handle_net"]>>

\* Pass 1: warn about every key no handler is registered for
\* (mutant) a key with no handler is an error
pass1_strict(v, h, loc, s) ==
    ForEach(LAMBDA i, t:
              IF \A j \in 1..Len(h) : h[j].name # i.n
              THEN Fatal(t, loc \o ": no match for key \"" \o i.n \o "\"")
              ELSE t,
            v.v, 1, s)

pass1(v, h, loc, s) ==
    ForEach(LAMBDA i, t:
              IF \A j \in 1..Len(h) : h[j].name # i.n
              THEN Warn(t, loc \o ": no match for key \"" \o i.n \o "\", ignored")
              ELSE t,
            v.v, 1, s)

\* (mutant) a single pass in document order: the handler of the next pair that
\* has one, whatever its slot
next_match_docorder(ps, h, j, i) ==
    LET hit == {k \in i..Len(ps) : \E l \in 1..Len(h) : h[l].name = ps[k].n}
        k == CHOOSE x \in hit : \A y \in hit : x <= y
    IN IF j > Len(h) \/ hit = {} THEN [j |-> Len(h) + 1, i |-> 1]
       ELSE [j |-> CHOOSE l \in 1..Len(h) : h[l].name = ps[k].n, i |-> k]

\* (mutant) a break after the first pair a handler matched
next_match_break(ps, h, j, i) ==
    LET hit == {l \in (IF i > 1 THEN j + 1 ELSE j)..Len(h) :
                  \E k \in 1..Len(ps) : ps[k].n = h[l].name}
        l == CHOOSE x \in hit : \A y \in hit : x <= y
    IN IF hit = {} THEN [j |-> Len(h) + 1, i |-> 1]
       ELSE [j |-> l, i |-> CHOOSE k \in 1..Len(ps) :
                              /\ ps[k].n = h[l].name
                              /\ \A m \in 1..(k - 1) : ps[m].n # h[l].name]

\* the next (j, i) at or after (j, i) with h[j].name = pairs[i].n, in the order
\* of the loops of pass 2; j = Len(h) + 1 when there is none
RECURSIVE next_match(_, _, _, _)
next_match(ps, h, j, i) ==
    IF j > Len(h) THEN [j |-> j, i |-> 1]
    ELSE IF i > Len(ps) THEN next_match(ps, h, j + 1, 1)
    ELSE IF ps[i].n = h[j].name THEN [j |-> j, i |-> i]
    ELSE next_match(ps, h, j, i + 1)

\* s.by names the root key whose handler is running
Invoked(s, loc, h, j, i) ==
    [s EXCEPT !.invoked = Append(@, [loc |-> loc, name |-> h[j].name,
                                     handler |-> h[j].handler, j |-> j, i |-> i]),
              !.by = IF loc = "rumprun_config" THEN h[j].name ELSE @]

\* Pass 2 from position (j, i) on; call(f, v, loc, s) is h[j].handler(*i, loc)
RECURSIVE pass2(_, _, _, _, _, _, _)
pass2(call(_, _, _, _), ps, h, loc, j, i, s) ==
    LET m == next_match(ps, h, j, i)
    IN IF s.fatal \/ m.j > Len(h) THEN s
       ELSE pass2(call, ps, h, loc, m.j, m.i + 1,
                  call(h[m.j].handler, ps[m.i], loc, Invoked(s, loc, h, m.j, m.i)))

handle_object(call(_, _, _, _), v, h, loc, s) ==
    Then(jexpect("jobject", v, loc, s), LAMBDA t:
    Then(pass1(v, h, loc, t), LAMBDA u: pass2(call, v.v, h, loc, 1, 1, u)))

net_handler(f, v, loc, s) ==
    CASE f = "handle_interfaces" -> handle_interfaces(v, loc, s)
      [] f = "handle_gateways" -> handle_gateways(v, loc, s)
      [] f = "handle_dns" -> handle_dns(v, loc, s)

handle_net(v, loc, s) == handle_object(net_handler, v, handlers_net, "handle_net", s)

netbsd_handler(f, v, loc, s) ==
    CASE f = "handle_sysctl" -> handle_sysctl(v, loc, s)

handle_netbsd(v, loc, s) ==
    handle_object(netbsd_handler, v, handlers_netbsd, "handle_netbsd", s)

root_handler(f, v, loc, s) ==
    CASE f = "handle_netbsd" -> handle_netbsd(v, loc, s)
      [] f = "handle_rc" -> handle_rc(v, loc, s)
      [] f = "handle_env" -> handle_env(v, loc, s)
      [] f = "handle_blks" -> handle_blks(v, loc, s)
      [] f = "handle_mounts" -> handle_mounts(v, loc, s)
      [] f = "handle_net" -> handle_net(v, loc, s)

(***************************************************************************)
(* rumprun_config                                                          *)
(***************************************************************************)
\* lines 1166-1173: is there a '{' in the command line?
have_config(cmd) == Scan(cmd, "{", TRUE, 1) <= Len(cmd)

\* (mutant) no sanity check of the last entry
config_finish_nocheck(s) ==
    LET t == [s EXCEPT !.by = "rumprun_config"]
        s1 == IF Len(t.execs) = 0 THEN handle_rc_dummy(t) ELSE t
    IN IF Len(s1.execs) = 0
       THEN Fatal(s1, "internal error: no rumprun_execs[]")
       ELSE s1

\* lines 1188-1202: the fallback boot plan and the sanity check
config_finish(s) ==
    LET t == [s EXCEPT !.by = "rumprun_config"]
        s1 == IF Len(t.execs) = 0 THEN handle_rc_dummy(t) ELSE t
    IN IF Len(s1.execs) = 0
       THEN Fatal(s1, "internal error: no rumprun_execs[]")
       ELSE IF "PIPE" \in s1.execs[Len(s1.execs)].rre_flags
       THEN Fatal(s1, "rumprun_config: last rc entry may not output to pipe")
       ELSE s1

\* the whole of rumprun_config on command line cmd whose JSON text parses to rt
rumprun_config(cmd, rt, s) ==
    IF ~have_config(cmd)
    THEN config_finish(Warn(s, "could not find start of json.  no config?"))
    ELSE IF rt = JNil THEN Fatal(s, "jparse failed")
    ELSE Then(handle_object(root_handler, rt, handlers_root, "rumprun_config", s),
              config_finish)

(***************************************************************************)
(* The state machine: rumprun_config step by step.                         *)
(***************************************************************************)
\* what uninitialised memory and wild reads may hold
Junk ==
    {[workdir |-> NULL, sc |-> <<>>, nsc |-> 0, main |-> "<fault>", str |-> NULL],
     [workdir |-> "<garbage>", sc |-> <<[key |-> "<garbage>", value |-> "<garbage>"]>>,
      nsc |-> 1, main |-> "<garbage>", str |-> "<garbage>"]}

\* for the steps that read no unset memory
NoJunk == [workdir |-> NULL, sc |-> <<>>, nsc |-> 0, main |-> NULL, str |-> NULL]

\* which calls of one handler the environment fails
Fails == {{}} \cup {{k} : k \in 1..MaxFail} \cup {1..k : k \in 2..3}
         \cup {2..MaxFail}

Machine(fails, junk) ==
    [execs |-> rumprun_execs, env |-> environ, dirs |-> dirs, resolv |-> resolv,
     nodes |-> nodes, log |-> log, invoked |-> invoked, bins |-> rumprun_bins,
     fatal |-> FALSE, msg |-> "", fails |-> fails, ncalls |-> 0, by |-> "",
     junk |-> junk, tmp |-> <<>>]

Commit(s) ==
    /\ rumprun_execs' = s.execs
    /\ environ' = s.env
    /\ dirs' = s.dirs
    /\ resolv' = s.resolv
    /\ nodes' = s.nodes
    /\ log' = s.log
    /\ invoked' = s.invoked
    /\ diag' = s.msg

\* where pass 2 on the root stands after the handler call at (hj, hi)
Advance(s, j, i) ==
    LET m == next_match(root.v, handlers_root, j, i)
    IN IF s.fatal THEN pc' = "fatal" /\ UNCHANGED <<hj, hi>>
       ELSE IF m.j > Len(handlers_root) THEN pc' = "finish" /\ hj' = m.j /\ hi' = m.i
       ELSE pc' = "pass2" /\ hj' = m.j /\ hi' = m.i

FindJson ==
    /\ pc = "start"
    /\ LET s == Machine({}, NoJunk)
       IN IF ~have_config(cmdline)
          THEN /\ Commit(Warn(s, "could not find start of json.  no config?"))
               /\ pc' = "finish"
          ELSE IF root = JNil
          THEN Commit(Fatal(s, "jparse failed")) /\ pc' = "fatal"
          ELSE Commit(s) /\ pc' = "handle_object"
    /\ UNCHANGED <<cmdline, root, rumprun_bins, hj, hi>>

\* handle_object on the root: the kind check and pass 1
Pass1 ==
    /\ pc = "handle_object"
    /\ LET s == Then(jexpect("jobject", root, "rumprun_config",
                             Machine({}, NoJunk)),
                     LAMBDA t: pass1(root, handlers_root, "rumprun_config", t))
       IN Commit(s) /\ Advance(s, 1, 1)
    /\ UNCHANGED <<cmdline, root, rumprun_bins>>

\* one round of pass 2 on the root: handler(*i, loc) on pair hi
Invoke(handler(_, _, _), s) ==
    LET t == handler(root.v[hi], "rumprun_config",
                     Invoked(s, "rumprun_config", handlers_root, hj, hi))
    IN Commit(t) /\ Advance(t, hj, hi + 1)

HandleNetbsd ==
    /\ pc = "pass2"
    /\ handlers_root[hj].handler = "handle_netbsd"
    /\ \E fails \in Fails : Invoke(handle_netbsd, Machine(fails, NoJunk))
    /\ UNCHANGED <<cmdline, root, rumprun_bins>>

HandleRc ==
    /\ pc = "pass2"
    /\ handlers_root[hj].handler = "handle_rc"
    /\ \E junk \in Junk : Invoke(handle_rc, Machine({}, junk))
    /\ UNCHANGED <<cmdline, root, rumprun_bins>>

HandleEnv ==
    /\ pc = "pass2"
    /\ handlers_root[hj].handler = "handle_env"
    /\ \E fails \in Fails : Invoke(handle_env, Machine(fails, NoJunk))
    /\ UNCHANGED <<cmdline, root, rumprun_bins>>

HandleBlks ==
    /\ pc = "pass2"
    /\ handlers_root[hj].handler = "handle_blks"
    /\ \E fails \in Fails : Invoke(handle_blks, Machine(fails, NoJunk))
    /\ UNCHANGED <<cmdline, root, rumprun_bins>>

HandleMounts ==
    /\ pc = "pass2"
    /\ handlers_root[hj].handler = "handle_mounts"
    /\ \E fails \in Fails : Invoke(handle_mounts, Machine(fails, NoJunk))
    /\ UNCHANGED <<cmdline, root, rumprun_bins>>

HandleNet ==
    /\ pc = "pass2"
    /\ handlers_root[hj].handler = "handle_net"
    /\ \E fails \in Fails, junk \in Junk : Invoke(handle_net, Machine(fails, junk))
    /\ UNCHANGED <<cmdline, root, rumprun_bins>>

Finish ==
    /\ pc = "finish"
    /\ \E junk \in Junk :
         LET s == config_finish(Machine({}, junk))
         IN Commit(s) /\ pc' = IF s.fatal THEN "fatal" ELSE "done"
    /\ UNCHANGED <<cmdline, root, rumprun_bins, hj, hi>>

(***************************************************************************)
(* Inputs                                                                  *)
(***************************************************************************)
Bin(name) == [binname |-> name, main |-> "main_" \o name]

Registries == {<<>>, <<Bin("a"), Bin("b")>>}

Cmdlines == {"rumprun.bin", "rumprun.bin {"}

\* all sequences of at most n elements of S
RECURSIVE SeqsUpTo(_, _)
SeqsUpTo(S, n) ==
    IF n = 0 THEN {<<>>}
    ELSE LET shorter == SeqsUpTo(S, n - 1)
         IN shorter \cup {Append(q, x) : q \in shorter, x \in S}

Str(str) == JString("", str)

RcA == JObject("", <<JString("bin", "a")>>)
RcB == JObject("", <<JString("bin", "b"),
                     JArray("argv", <<Str("b"), Str("-v")>>),
                     JString("runmode", "&"), JString("workdir", "/tmp")>>)
RcPipe == JObject("", <<JString("runmode", "|"), JString("bin", "a"),
                        JArray("argv", <<>>)>>)

NetDoc ==
    JObject("net",
      <<JObject("dns", <<JArray("nameservers", <<Str("10.0.0.1")>>)>>),
        JArray("gateways", <<JObject("", <<JString("type", "inet"),
                                           JString("addr", "10.0.0.254")>>)>>),
        JObject("interfaces",
          <<JObject("xenif0",
              <<JArray("addrs", <<JObject("", <<JString("type", "inet"),
                                                JString("method", "static"),
                                                JString("addr", "10.0.0.5/24")>>)>>),
                JTrue("create")>>)>>)>>)

RootPairs ==
    {JObject("netbsd", <<JObject("sysctl", <<JString("kern.hostname", "rump")>>),
                         JObject("sysctl", <<JTrue("net.debug")>>)>>),
     JArray("rc", <<RcA>>),
     JArray("rc", <<RcPipe, RcB>>),
     JArray("rc", <<RcPipe>>),
     JArray("rc", <<>>),
     JObject("env", <<JString("HOME", "/root")>>),
     JString("env", "HOME=/root"),
     JObject("blk", <<JObject("ld0", <<JString("type", "etfs"),
                                       JString("path", "blk0")>>)>>),
     JObject("mount", <<JObject("/data/db", <<JString("source", "blk"),
                                              JString("path", "/dev/ld0")>>)>>),
     NetDoc,
     JString("hostname", "rump")}

RootDocs == {JObject("", ps) : ps \in SeqsUpTo(RootPairs, MaxRootPairs)}

BootDirs == {"/", "/dev"}
BootNodes == {"/dev/vnd0d", "/dev/rvnd0d"}

InitWith(Docs, Regs, Files) ==
    /\ cmdline \in Cmdlines
    /\ root \in IF have_config(cmdline) THEN Docs \cup {JNil} ELSE {JNil}
    /\ rumprun_bins \in Regs
    /\ pc = "start"
    /\ hj = 1
    /\ hi = 1
    /\ rumprun_execs = <<>>
    /\ environ = <<>>
    /\ dirs = BootDirs
    /\ resolv \in Files
    /\ nodes = BootNodes
    /\ log = <<>>
    /\ invoked = <<>>
    /\ diag = ""

Init == InitWith(RootDocs, Registries, {NoFile})

Next ==
    \/ FindJson
    \/ Pass1
    \/ HandleNetbsd
    \/ HandleRc
    \/ HandleEnv
    \/ HandleBlks
    \/ HandleMounts
    \/ HandleNet
    \/ Finish

Spec == Init /\ [][Next]_vars

(***************************************************************************)
(* SpecRc: documents that hold only rc keys, every shape of rc element.    *)
(***************************************************************************)
RcElems ==
    {RcA, RcB, RcPipe,
     JObject("", <<JString("bin", "*"), JString("runmode", ""),
                   JObject("netbsd", <<JObject("sysctl", <<JString("x", "5"),
                                                           JTrue("y")>>)>>)>>),
     JObject("", <<JString("bin", "zz")>>),
     JObject("", <<JString("bin", "b"),
                   JObject("netbsd", <<JObject("sysctl", <<JFalse("z")>>)>>),
                   JArray("argv", <<Str("b")>>),
                   JObject("netbsd", <<>>),
                   JArray("argv", <<Str("b"), Str("-x")>>)>>),
     JObject("", <<JArray("argv", <<Str("a")>>), JString("workdir", "/")>>),
     JObject("", <<JString("bin", "a"),
                   JObject("netbsd", <<JObject("sysctl", <<JNull("w")>>)>>)>>),
     JObject("", <<JString("bin", "a"), JString("colour", "red")>>),
     JObject("", <<JString("bin", "b"),
                   JObject("netbsd", <<JObject("sysctl", <<JString("x", "5")>>),
                                       JString("cpu", "1")>>)>>)}

RcDocs ==
    {JObject("", <<JArray("rc", es)>>) : es \in SeqsUpTo(RcElems, MaxRc)}
    \cup {JObject("", <<JArray("rc", e1), JArray("rc", e2)>>) :
            e1 \in SeqsUpTo(RcElems, 1), e2 \in SeqsUpTo(RcElems, 1)}

InitRc == InitWith(RcDocs, Registries, {NoFile})

NextRc == FindJson \/ Pass1 \/ HandleRc \/ Finish

SpecRc == InitRc /\ [][NextRc]_vars

(***************************************************************************)
(* SpecSysctl: one sysctl object, at the root and inside an rc element.    *)
(***************************************************************************)
SysctlPairs ==
    {JString("kern.a", "x1"), JTrue("kern.b"), JFalse("kern.c"),
     JNumber("kern.d", "42"), JNull("kern.e"),
     JArray("kern.f", <<Str("1")>>), JObject("kern.g", <<>>)}

SysctlObjects == {JObject("sysctl", ps) : ps \in SeqsUpTo(SysctlPairs, MaxSysctl)}

SysctlDocs ==
    {JObject("", <<JObject("netbsd", <<o>>)>>) : o \in SysctlObjects}
    \cup {JObject("", <<JArray("rc", <<JObject("", <<JString("bin", "a"),
                                                     JObject("netbsd", <<o>>)>>)>>)>>) :
            o \in SysctlObjects}

InitSysctl == InitWith(SysctlDocs, Registries, {NoFile})

NextSysctl == FindJson \/ Pass1 \/ HandleNetbsd \/ HandleRc \/ Finish

SpecSysctl == InitSysctl /\ [][NextSysctl]_vars

(***************************************************************************)
(* SpecDns: one dns object under net, with and without an old resolv.conf. *)
(***************************************************************************)
RECURSIVE Rep(_, _)
Rep(str, n) ==
    IF n = 0 THEN ""
    ELSE LET h == Rep(str, n \div 2)
         IN h \o h \o (IF n % 2 = 1 THEN str ELSE "")

NsAddr(k) == "10.0.0." \o ToString(k)
Domain(k) == "d" \o ToString(k) \o ".example.org"

NsArrays ==
    {JNil} \cup {JArray("nameservers", [k \in 1..n |-> Str(NsAddr(k))]) : n \in 0..MaxNs}
SearchArrays ==
    {JNil, JArray("search", <<Str(Rep("x", ResolvLine + 1))>>)}
    \cup {JArray("search", [k \in 1..n |-> Str(Domain(k))]) : n \in 0..MaxSearch}

DnsObjects ==
    {JObject("dns", SelectSeq(<<se, ns>>, LAMBDA x: x # JNil)) :
       ns \in NsArrays, se \in SearchArrays}

DnsDocs == {JObject("", <<JObject("net", <<o>>)>>) : o \in DnsObjects}

OldResolv == Rep("nameserver 192.168.100.100\n", 10)

InitDns == InitWith(DnsDocs, {<<Bin("a")>>}, {NoFile, OldResolv})

NextDns == FindJson \/ Pass1 \/ HandleNet \/ Finish

SpecDns == InitDns /\ [][NextDns]_vars

(***************************************************************************)
(* SpecAddr: one interface, every shape of address entry.                  *)
(***************************************************************************)
Addr(type, method, addr) ==
    JObject("", <<JString("type", type), JString("method", method),
                  JString("addr", addr)>>)

AddrEntries ==
    {Addr("inet", "static", "10.0.0.5/24"),
     Addr("inet", "static", "10.0.0.7"),
     Addr("inet", "static", "10.1.2.3/8/9"),
     Addr("inet", "static", "10.0.0.9/"),
     Addr("inet6", "static", "fe80::1/64"),
     Addr("inet", "ppp", "10.0.0.5/24"),
     Addr("ipx", "static", "10.0.0.5/24"),
     Addr("inet", "auto", "10.0.0.5/24"),
     JObject("", <<JString("type", "inet6"), JString("method", "dhcp")>>),
     JObject("", <<JString("method", "static"), JString("type", "inet")>>),
     JObject("", <<JString("type", "inet"), JString("method", "dhcp"),
                   JString("mtu", "1500")>>),
     JObject("", <<JString("type", "inet6"), JString("method", "auto")>>),
     JObject("", <<JString("method", "dhcp")>>),
     JObject("", <<JTrue("type"), JString("method", "dhcp")>>),
     JObject("", <<JString("type", "inet"), JNull("method")>>),
     JObject("", <<JString("type", "inet"), JString("method", "static"),
                   JNumber("addr", "5")>>),
     JObject("", <<JString("type", "inet"), JString("method", "static"),
                   JObject("addr", <<>>)>>),
     Str("10.0.0.5/24")}

AddrDocs ==
    {JObject("", <<JObject("net", <<JObject("interfaces",
        <<JObject("xen0", c \o <<JArray("addrs", as)>>)>>)>>)>>) :
       c \in {<<>>, <<JTrue("create")>>, <<JFalse("create")>>},
       as \in SeqsUpTo(AddrEntries, MaxAddrs)}

InitAddr == InitWith(AddrDocs, {<<Bin("a")>>}, {NoFile})

NextAddr == FindJson \/ Pass1 \/ HandleNet \/ Finish

SpecAddr == InitAddr /\ [][NextAddr]_vars

(***************************************************************************)
(* SpecStorage: the keys whose handlers call out of the interpreter.       *)
(***************************************************************************)
Blk(dev, type, path) ==
    JObject("blk", <<JObject(dev, <<JString("type", type), JString("path", path)>>)>>)

Mount(mp, pairs) == JObject("mount", <<JObject(mp, pairs)>>)

StoragePairs ==
    {Blk("vnd0", "vnd", "disk.img"),
     Blk("vnd1", "vnd", "disk.img"),
     Blk("ld0", "etfs", "blk0"),
     Mount("/", <<JString("source", "blk"), JString("path", "/dev/ld0")>>),
     Mount("/data/db", <<JString("source", "blk"), JString("path", "/dev/vnd1d")>>),
     Mount("/kern", <<JString("source", "kernfs")>>),
     Mount("/mnt", <<JString("source", "blk")>>),
     Mount("/net/home", <<JString("source", "nfs"), JString("path", "/dev/ld0")>>),
     Mount("/opt", <<JString("path", "/dev/ld0")>>),
     Mount("/tmp", <<JString("source", "tmpfs"),
                     JObject("options", <<JString("size", "2M")>>)>>),
     JObject("netbsd", <<JObject("sysctl", <<JString("kern.hostname", "rump"),
                                             JTrue("net.debug")>>)>>),
     JObject("env", <<JString("HOME", "/root"), JString("TERM", "vt100")>>),
     JObject("net", <<JArray("gateways",
                             <<JObject("", <<JString("type", "inet"),
                                             JString("addr", "10.0.0.1")>>)>>)>>)}

StorageDocs == {JObject("", ps) : ps \in SeqsUpTo(StoragePairs, MaxStoragePairs)}

InitStorage == InitWith(StorageDocs, {<<Bin("a")>>}, {NoFile})

NextStorage ==
    \/ FindJson
    \/ Pass1
    \/ HandleNetbsd
    \/ HandleEnv
    \/ HandleBlks
    \/ HandleMounts
    \/ HandleNet
    \/ Finish

SpecStorage == InitStorage /\ [][NextStorage]_vars

(***************************************************************************)
(* SpecVnd: vnd devices over every device namespace that has the unit 0    *)
(* nodes.                                                                  *)
(***************************************************************************)
VndEntries ==
    {JObject("vnd0", <<JString("type", "vnd"), JString("path", "disk.img")>>),
     JObject("vnd1", <<JString("type", "vnd"), JString("path", "disk.img")>>),
     JObject("vnd1", <<JString("path", "data.img"), JString("type", "vnd")>>),
     JObject("vndx", <<JString("type", "vnd"), JString("path", "disk.img")>>),
     JObject("ld0", <<JString("type", "etfs"), JString("path", "blk0")>>)}

VndDocs ==
    {JObject("", <<JObject("blk", q)>>) : q \in SeqsUpTo(VndEntries, MaxVnd)}

InitVnd ==
    /\ cmdline \in Cmdlines
    /\ root \in IF have_config(cmdline) THEN VndDocs \cup {JNil} ELSE {JNil}
    /\ rumprun_bins = <<Bin("a")>>
    /\ pc = "start"
    /\ hj = 1
    /\ hi = 1
    /\ rumprun_execs = <<>>
    /\ environ = <<>>
    /\ dirs = BootDirs
    /\ resolv = NoFile
    /\ nodes \in {BootNodes \cup more : more \in SUBSET {"/dev/vnd1d", "/dev/rvnd1d"}}
    /\ log = <<>>
    /\ invoked = <<>>
    /\ diag = ""

NextVnd == FindJson \/ Pass1 \/ HandleBlks \/ Finish

SpecVnd == InitVnd /\ [][NextVnd]_vars

(***************************************************************************)
(* SpecUnknown: keys no table names, in the root, in net and in netbsd.    *)
(***************************************************************************)
UnknownPairs ==
    {JString("hostname", "rump"),
     JObject("mem", <<JString("size", "64M")>>),
     JObject("netbsd", <<JString("cpu", "x86"),
                         JObject("sysctl", <<JString("kern.hostname", "rump")>>),
                         JNull("smp")>>),
     JObject("netbsd", <<JObject("sysctl", <<JTrue("net.debug")>>)>>),
     JObject("net", <<JString("mtu", "1500"),
                      JArray("gateways", <<JObject("", <<JString("type", "inet"),
                                                         JString("addr", "10.0.0.1")>>)>>),
                      JObject("wifi", <<>>),
                      JObject("interfaces", <<JObject("xen0", <<JTrue("create")>>)>>)>>),
     JObject("net", <<JArray("gateways", <<JObject("", <<JString("type", "ipx"),
                                                         JString("addr", "1")>>)>>),
                      JTrue("ipv6")>>),
     JArray("rc", <<RcA>>),
     JObject("env", <<JString("HOME", "/root")>>)}

UnknownDocs == {JObject("", ps) : ps \in SeqsUpTo(UnknownPairs, MaxUnknownPairs)}

InitUnknown == InitWith(UnknownDocs, {<<Bin("a")>>}, {NoFile})

NextUnknown ==
    \/ FindJson
    \/ Pass1
    \/ HandleNetbsd
    \/ HandleRc
    \/ HandleEnv
    \/ HandleNet
    \/ Finish

SpecUnknown == InitUnknown /\ [][NextUnknown]_vars

(***************************************************************************)
(* Vocabulary of the properties                                            *)
(***************************************************************************)
\* the concatenation of the sequences of q
RECURSIVE Flatten(_)
Flatten(q) == IF q = <<>> THEN <<>> ELSE Head(q) \o Flatten(Tail(q))

IsPrefix(p, q) == Len(p) <= Len(q) /\ SubSeq(q, 1, Len(p)) = p

\* the order of the root keys the documentation gives
RootOrder == <<"netbsd", "rc", "env", "blk", "mount", "net">>
RootRank(name) == CHOOSE k \in 1..Len(RootOrder) : RootOrder[k] = name
IsRootKey(name) == \E k \in 1..Len(RootOrder) : RootOrder[k] = name

(***************************************************************************)
(* Net objects: interfaces, gateways and dns in every order of the keys    *)
(***************************************************************************)
IfCands ==
    {JObject("xen0", <<JArray("addrs", <<JObject("", <<JString("type", "inet"),
                                                       JString("method", "dhcp")>>),
                                         Addr("inet", "static", "10.0.0.5/24")>>),
                       JTrue("create")>>),
     JObject("xen1", <<JArray("addrs", <<JObject("", <<JString("type", "inet6"),
                                                       JString("method", "auto")>>)>>)>>),
     JObject("tap0", <<JTrue("create")>>),
     JObject("tap1", <<JFalse("create"),
                       JArray("addrs", <<Addr("inet", "static", "10.0.0.7/8")>>)>>)}

Gw(type, addr) == JObject("", <<type, addr>>)

GwCands ==
    {Gw(JString("type", "inet"), JString("addr", "10.0.0.1")),
     Gw(JString("type", "inet6"), JString("addr", "fe80::1")),
     Gw(JString("type", "inet"), JNumber("addr", "5")),
     Gw(JString("type", "inet"), JObject("addr", <<>>)),
     Gw(JTrue("type"), JString("addr", "10.0.0.1"))}

\* sequences of one to n elements of S
SeqsFrom1(S, n) == SeqsUpTo(S, n) \ {<<>>}

IfObjects == {JObject("interfaces", q) : q \in SeqsFrom1(IfCands, MaxIfs)}

GwArrays == {JArray("gateways", q) : q \in SeqsFrom1(GwCands, MaxGw)}

TheDns == JObject("dns", <<JArray("nameservers", <<Str("10.0.0.1")>>)>>)

\* the keys of a net object, each at most once, in every order
NetOrders ==
    {o \in SeqsUpTo({"interfaces", "gateways", "dns"}, 3) :
       \A a, b \in 1..Len(o) : a # b => o[a] # o[b]}

NetDocs ==
    {JObject("", <<JObject("net",
        [k \in 1..Len(o) |-> IF o[k] = "interfaces" THEN i
                             ELSE IF o[k] = "gateways" THEN g
                             ELSE TheDns])>>) :
       o \in NetOrders, i \in IfObjects, g \in GwArrays}

InitNet == InitWith(NetDocs, {<<Bin("a")>>}, {NoFile})

NextNet == FindJson \/ Pass1 \/ HandleNet \/ Finish

SpecNet == InitNet /\ [][NextNet]_vars

HasDoc == have_config(cmdline) /\ root # JNil /\ root.d = "jobject"
RootPairsOf == IF HasDoc THEN root.v ELSE <<>>
Returned == pc = "done"

\* the last pair of object e named name, JNil when there is none
LastNamed(e, name) ==
    LET hit == {k \in 1..Len(e.v) : e.v[k].n = name}
    IN IF hit = {} THEN JNil ELSE e.v[CHOOSE k \in hit : \A l \in hit : l <= k]

\* C1: in the effect log, the effects of the root keys come in the order
\* netbsd (sysctl writes), rc (boot plan appends), env (environment writes),
\* blk, mount (mkdir and mount), net, whatever the order of the keys in the
\* document; and each kind of effect comes from the key that owns it.
C1_EffectsInTableOrder ==
    /\ \A a, b \in 1..Len(log) :
         (a < b /\ IsRootKey(log[a].by) /\ IsRootKey(log[b].by))
           => RootRank(log[a].by) <= RootRank(log[b].by)
    /\ \A a \in 1..Len(log) :
         /\ log[a].op = "rumprun_sysctlw" => log[a].by = "netbsd"
         /\ log[a].op = "TAILQ_INSERT_TAIL" => log[a].by \in {"rc", "rumprun_config"}
         /\ log[a].op = "setenv" => log[a].by = "env"
         /\ log[a].op = "rump_pub_etfs_register" => log[a].by = "blk"
         /\ log[a].op = "mount" => log[a].by = "mount"
         /\ log[a].op \in {"rump_pub_netconfig_ifcreate",
                           "rump_pub_netconfig_ipv4_ifaddr_cidr",
                           "rump_pub_netconfig_ipv4_gw", "write"}
              => log[a].by = "net"

\* a run that returned although the document lists three keys with effects in
\* exactly the reverse of the table order
C1_Witness ==
    /\ Returned
    /\ Len(RootPairsOf) = 3
    /\ \A k \in 1..2 : /\ IsRootKey(root.v[k].n) /\ IsRootKey(root.v[k + 1].n)
                       /\ RootRank(root.v[k].n) > RootRank(root.v[k + 1].n)
    /\ \A k \in 1..3 : \E a \in 1..Len(log) : log[a].by = root.v[k].n

\* the machine as Init leaves it, for a run of rumprun_config as a whole
Boot(file, junk) ==
    [execs |-> <<>>, env |-> <<>>, dirs |-> BootDirs, resolv |-> file,
     nodes |-> BootNodes, log |-> <<>>, invoked |-> <<>>, bins |-> rumprun_bins,
     fatal |-> FALSE, msg |-> "", fails |-> {}, ncalls |-> 0, by |-> "",
     junk |-> junk, tmp |-> <<>>]

\* what C2 compares: the boot plan, the sysctl assignments and the storage and
\* network actions, each in order, and whether the run was fatal
Observed(s) ==
    [plan |-> s.execs,
     sysctl |-> SelectSeq(s.log, LAMBDA e: e.op = "rumprun_sysctlw"),
     actions |-> SelectSeq(s.log, LAMBDA e: e.by \in {"blk", "mount", "net"}),
     fatal |-> s.fatal]

Perms(n) == {f \in [1..n -> 1..n] : \A a, b \in 1..n : a # b => f[a] # f[b]}
Permuted(rt, f) == [rt EXCEPT !.v = [k \in 1..Len(rt.v) |-> rt.v[f[k]]]]
KeepsSameNameOrder(rt, f) ==
    \A a, b \in 1..Len(rt.v) :
      (a < b /\ rt.v[f[a]].n = rt.v[f[b]].n) => f[a] < f[b]

RunOf(rt, junk) == Observed(rumprun_config(cmdline, rt, Boot(NoFile, junk)))

\* C2 (as amended): for every document the run accepts, every permutation of
\* the root pairs that keeps pairs of the same name in their relative order
\* gives the same boot plan, the same sysctl assignments and the same storage
\* and network actions (in the same environment); the run just made is one of
\* the runs compared.
C2_StablePermutationSameResult ==
    (Returned /\ HasDoc) =>
      /\ \A junk \in Junk :
           LET same == RunOf(root, junk)
           IN \A f \in Perms(Len(root.v)) :
                KeepsSameNameOrder(root, f) => RunOf(Permuted(root, f), junk) = same
      /\ \E junk \in Junk : RunOf(root, junk).plan = rumprun_execs

\* C2 (as claimed): every permutation of the root pairs gives the same result
C2_AnyPermutationSameResult ==
    (Returned /\ HasDoc) =>
      \A junk \in Junk :
        LET same == RunOf(root, junk)
        IN \A f \in Perms(Len(root.v)) : RunOf(Permuted(root, f), junk) = same

\* an accepted document of three differently named keys, in an order that is
\* not the table's, all with effects
C2_Witness ==
    /\ Returned
    /\ Len(RootPairsOf) = 3
    /\ \A a, b \in 1..3 : a # b => root.v[a].n # root.v[b].n
    /\ \A k \in 1..3 : IsRootKey(root.v[k].n)
    /\ RootRank(root.v[1].n) > RootRank(root.v[3].n)
    /\ \A k \in 1..3 : \E a \in 1..Len(log) : log[a].by = root.v[k].n

\* what pass 2 of handle_object must have invoked on object v with the keys
\* of table order names: slot by slot, and in a slot pair by pair
ExpectedCalls(v, names) ==
    Flatten([j \in 1..Len(names) |->
               SelectSeq([i \in 1..Len(v.v) |-> [name |-> v.v[i].n, i |-> i]],
                         LAMBDA c: c.name = names[j])])

\* the same with, after each call for a nested object, the calls inside it
ExpectedRootCalls ==
    Flatten([k \in 1..Len(ExpectedCalls(root, RootOrder)) |->
      LET c == ExpectedCalls(root, RootOrder)[k]
          inner == IF c.name = "net"
                   THEN ExpectedCalls(root.v[c.i], <<"interfaces", "gateways", "dns">>)
                   ELSE IF c.name = "netbsd"
                   THEN ExpectedCalls(root.v[c.i], <<"sysctl">>)
                   ELSE <<>>
      IN <<c>> \o inner])

CallsMade == [k \in 1..Len(invoked) |-> [name |-> invoked[k].name, i |-> invoked[k].i]]

\* C3: handle_object calls the handler of a name once for each pair of that
\* name, in document order, all of them after the calls of earlier table
\* entries and before those of later ones: the calls made are always a prefix
\* of that sequence, and all of it once pass 2 is over.
C3_EveryDuplicateInItsSlot ==
    HasDoc =>
      /\ IsPrefix(CallsMade, ExpectedRootCalls)
      /\ pc \in {"finish", "done"} => CallsMade = ExpectedRootCalls

\* rc, netbsd, rc: the second rc is called last although netbsd comes between
C3_Witness ==
    /\ Returned
    /\ Len(RootPairsOf) = 3
    /\ root.v[1].n = "rc" /\ root.v[2].n = "netbsd" /\ root.v[3].n = "rc"
    /\ Len(SelectSeq(invoked, LAMBDA c: c.name = "rc")) = 2
    /\ Len(SelectSeq(invoked, LAMBDA c: c.name = "sysctl")) = 2
    /\ Len(rumprun_execs) = 3

\* the elements of the rc arrays of the document, in document order
RcElements ==
    Flatten([k \in 1..Len(RootPairsOf) |->
               IF root.v[k].n = "rc" /\ root.v[k].d = "jarray" THEN root.v[k].v
               ELSE <<>>])

RunmodeOf(e) ==
    IF e.d = "jobject" /\ LastNamed(e, "runmode").d = "jstring"
    THEN LastNamed(e, "runmode").s ELSE ""

\* C5: when rumprun_config returns, the boot plan is not empty and its last
\* entry is not piped; so no document whose last rc element has runmode "|"
\* makes it return.
C5_NeverReturnsWithPipeLast ==
    Returned =>
      /\ Len(rumprun_execs) > 0
      /\ "PIPE" \notin rumprun_execs[Len(rumprun_execs)].rre_flags
      /\ RcElements # <<>> => RunmodeOf(RcElements[Len(RcElements)]) # "|"

\* the sanity check itself stopped a document whose other keys were applied
C5_Witness ==
    /\ pc = "fatal"
    /\ diag = "rumprun_config: last rc entry may not output to pipe"
    /\ Len(RootPairsOf) = 3
    /\ RunmodeOf(RcElements[Len(RcElements)]) = "|"
    /\ \E a \in 1..Len(log) : log[a].by = "net"
    /\ \E a \in 1..Len(log) : log[a].by = "env"

NoRcKey ==
    \/ ~have_config(cmdline)
    \/ HasDoc /\ \A k \in 1..Len(root.v) : root.v[k].n # "rc"

\* C6: with no rc key, or no '{' in the command line, the boot plan stays
\* empty until the end and the run returns with one foreground entry per
\* program of the registry, in registry order, argv = [name]; with an empty
\* registry it does not return.
C6_FallbackPlanFromRegistry ==
    NoRcKey =>
      /\ pc \in {"start", "handle_object", "pass2", "finish"} => rumprun_execs = <<>>
      /\ Returned =>
           /\ rumprun_bins # <<>>
           /\ Len(rumprun_execs) = Len(rumprun_bins)
           /\ \A k \in 1..Len(rumprun_execs) :
                /\ rumprun_execs[k].rre_flags = {}
                /\ rumprun_execs[k].rre_main = rumprun_bins[k].main
                /\ rumprun_execs[k].rre_argc = 1
                /\ rumprun_execs[k].rre_argv = <<rumprun_bins[k].binname, NULL>>

\* a document with other keys and no rc returned with the registry's programs
C6_Witness ==
    /\ Returned
    /\ HasDoc /\ NoRcKey
    /\ Len(root.v) = 2
    /\ Len(rumprun_execs) = 2
    /\ \E a \in 1..Len(log) : log[a].by = "mount"

\* what an rc element says its entry is
ArgvOf(e) ==
    LET a == LastNamed(e, "argv")
    IN IF a # JNil /\ Len(a.v) > 0 THEN [k \in 1..Len(a.v) |-> a.v[k].s]
       ELSE <<LastNamed(e, "bin").s>>

FlagsOf(e) ==
    IF RunmodeOf(e) = "&" THEN {"BACKGROUND"}
    ELSE IF RunmodeOf(e) = "|" THEN {"PIPE"}
    ELSE {}

WorkdirOf(e) ==
    IF LastNamed(e, "workdir") = JNil THEN NULL ELSE LastNamed(e, "workdir").s

EntryFollows(rre, e) ==
    /\ rre.rre_argv = ArgvOf(e) \o <<NULL>>
    /\ rre.rre_flags = FlagsOf(e)
    /\ rre.rre_workdir = WorkdirOf(e)

\* C4 (as amended): when the rc arrays of the document, taken together in
\* document order, hold at least one element and the run returns, the boot
\* plan has one entry per element, in that order, each with the argv, run mode
\* and workdir of its element.
C4_PlanFollowsRcElements ==
    (Returned /\ RcElements # <<>>) =>
      /\ Len(rumprun_execs) = Len(RcElements)
      /\ \A k \in 1..Len(RcElements) : EntryFollows(rumprun_execs[k], RcElements[k])

\* C4 (as claimed): for a document with one rc array of any length, the empty
\* array included
C4_PlanFollowsAnyRcArray ==
    (Returned /\ HasDoc /\ Len(root.v) = 1 /\ root.v[1].n = "rc") =>
      /\ Len(rumprun_execs) = Len(root.v[1].v)
      /\ \A k \in 1..Len(root.v[1].v) : EntryFollows(rumprun_execs[k], root.v[1].v[k])

\* a piped entry followed by a background entry with its own argv and workdir
C4_Witness ==
    /\ Returned
    /\ Len(RcElements) = 2
    /\ Len(rumprun_execs) = 2
    /\ rumprun_execs[1].rre_flags = {"PIPE"}
    /\ rumprun_execs[2].rre_flags = {"BACKGROUND"}
    /\ rumprun_execs[2].rre_workdir = "/tmp"
    /\ rumprun_execs[2].rre_argv = <<"b", "-v", NULL>>

\* every entry of the boot plan was appended by handle_bin
PlanFromRc ==
    /\ Len(rumprun_execs) <= Len(RcElements)
    /\ \A a \in 1..Len(log) : log[a].op = "TAILQ_INSERT_TAIL" => log[a].by = "rc"

\* C7: the argv of an entry is the argv array of its rc element when that
\* array is there and not empty, and [bin] otherwise; argc is its length and
\* the vector ends with NULL.
C7_ArgvFromElement ==
    PlanFromRc =>
      \A k \in 1..Len(rumprun_execs) :
        LET a == LastNamed(RcElements[k], "argv")
            want == IF a # JNil /\ Len(a.v) > 0
                    THEN [x \in 1..Len(a.v) |-> a.v[x].s]
                    ELSE <<LastNamed(RcElements[k], "bin").s>>
        IN /\ rumprun_execs[k].rre_argc = Len(want)
           /\ rumprun_execs[k].rre_argv = want \o <<NULL>>

\* one entry from an empty argv array, then one from a two-element array
C7_Witness ==
    /\ PlanFromRc
    /\ Len(rumprun_execs) = 2
    /\ LastNamed(RcElements[1], "argv") # JNil
    /\ LastNamed(RcElements[1], "argv").v = <<>>
    /\ rumprun_execs[1].rre_argv = <<"a", NULL>>
    /\ Len(LastNamed(RcElements[2], "argv").v) = 2
    /\ rumprun_execs[2].rre_argc = 2

\* the sysctl object an rc element ends up with: the last "sysctl" of its
\* "netbsd" objects
SysctlObjectOf(e) ==
    LET all == Flatten([k \in 1..Len(e.v) |->
                          IF e.v[k].n = "netbsd"
                          THEN SelectSeq(e.v[k].v, LAMBDA j: j.n = "sysctl")
                          ELSE <<>>])
    IN IF all = <<>> THEN JNil ELSE all[Len(all)]

ValueOf(p) ==
    IF p.d = "jtrue" THEN "1" ELSE IF p.d = "jfalse" THEN "0" ELSE p.s

\* C9: the entry of an rc element holds one assignment proc.curproc.<k> = v
\* for each pair of the element's netbsd.sysctl object, in order, and nothing
\* when the element has none; no such assignment is written with
\* rumprun_sysctlw while the document is interpreted.
C9_PerProcessSysctl ==
    PlanFromRc =>
      /\ \A k \in 1..Len(rumprun_execs) :
           LET o == SysctlObjectOf(RcElements[k])
               want == IF o = JNil THEN <<>>
                       ELSE [x \in 1..Len(o.v) |->
                               [key |-> "proc.curproc." \o o.v[x].n,
                                value |-> ValueOf(o.v[x])]]
           IN /\ rumprun_execs[k].rre_sc = want
              /\ rumprun_execs[k].rre_nsc = Len(want)
      /\ \A a \in 1..Len(log) : log[a].op # "rumprun_sysctlw"

\* an entry with two assignments followed by an entry with none
C9_Witness ==
    /\ PlanFromRc
    /\ Len(rumprun_execs) = 2
    /\ rumprun_execs[1].rre_sc = <<[key |-> "proc.curproc.x", value |-> "5"],
                                   [key |-> "proc.curproc.y", value |-> "1"]>>
    /\ rumprun_execs[2].rre_sc = <<>>
    /\ SysctlObjectOf(RcElements[2]) = JNil

\* the calls of rumprun_sysctlw, in the order made
SysctlLog == SelectSeq(log, LAMBDA e : e.op = "rumprun_sysctlw")

\* the document is { "netbsd": { "sysctl": {...} } }
RootSysctlOnly ==
    /\ HasDoc /\ Len(root.v) = 1
    /\ root.v[1].n = "netbsd" /\ root.v[1].d = "jobject" /\ Len(root.v[1].v) = 1
    /\ root.v[1].v[1].n = "sysctl" /\ root.v[1].v[1].d = "jobject"

\* the document is { "rc": [ { "bin": .., "netbsd": { "sysctl": {...} } } ] }
RcSysctlOnly ==
    /\ HasDoc /\ Len(root.v) = 1 /\ Len(RcElements) = 1
    /\ RcElements[1].d = "jobject"
    /\ LastNamed(RcElements[1], "netbsd") # JNil
    /\ SysctlObjectOf(RcElements[1]) # JNil

HasValue(p) == p.d \in {"jtrue", "jfalse", "jstring"}

\* assignment (key, value) is the one pair p stands for under prefix
Assigns(key, value, p, prefix) ==
    /\ key = (IF prefix = NULL THEN p.n ELSE prefix \o "." \o p.n)
    /\ HasValue(p) => value = ValueOf(p)

\* C8: the n pairs of a sysctl object become n assignments in the order of the
\* pairs, true as "1", false as "0", a string as it is, the key prefixed with
\* "<prefix>." when there is a prefix; the assignments of the root
\* netbsd.sysctl go to rumprun_sysctlw in that order with the bare key.
C8_SysctlAssignments ==
    /\ RootSysctlOnly =>
         LET o == root.v[1].v[1]
         IN /\ Len(SysctlLog) <= Len(o.v)
            /\ \A k \in 1..Len(SysctlLog) :
                 Assigns(SysctlLog[k].args[1], SysctlLog[k].args[2], o.v[k], NULL)
            /\ pc \in {"finish", "done"} => Len(SysctlLog) = Len(o.v)
    /\ (RcSysctlOnly /\ PlanFromRc /\ Len(rumprun_execs) = 1) =>
         LET o == SysctlObjectOf(RcElements[1])
             sc == rumprun_execs[1].rre_sc
         IN /\ Len(sc) = Len(o.v)
            /\ \A k \in 1..Len(sc) :
                 Assigns(sc[k].key, sc[k].value, o.v[k], "proc.curproc")

\* the root object { "kern.c": false, "kern.a": "x1" } was written out
C8_Witness ==
    /\ RootSysctlOnly
    /\ pc = "finish"
    /\ Len(SysctlLog) = 2
    /\ SysctlLog[1].args = <<"kern.c", "0">>
    /\ SysctlLog[2].args = <<"kern.a", "x1">>
    /\ SysctlLog[2].ok

\* the document is { "net": { "dns": {...} } }
DnsOnly ==
    /\ HasDoc /\ Len(root.v) = 1
    /\ root.v[1].n = "net" /\ root.v[1].d = "jobject" /\ Len(root.v[1].v) = 1
    /\ root.v[1].v[1].n = "dns" /\ root.v[1].v[1].d = "jobject"

DnsCount(name) ==
    LET a == LastNamed(root.v[1].v[1], name)
    IN IF a = JNil THEN 0 ELSE Len(a.v)

RECURSIVE Cat(_)
Cat(q) == IF q = <<>> THEN "" ELSE Head(q) \o Cat(Tail(q))

\* the nameserver lines followed by the search line of the dns object
ResolverText ==
    LET ns == LastNamed(root.v[1].v[1], "nameservers")
        se == LastNamed(root.v[1].v[1], "search")
    IN Cat([k \in 1..DnsCount("nameservers") |-> "nameserver " \o ns.v[k].s \o "\n"])
       \o (IF DnsCount("search") = 0 THEN ""
           ELSE "search" \o Cat([k \in 1..DnsCount("search") |-> " " \o se.v[k].s])
                \o "\n")

\* C10: more than 3 nameservers or more than 6 search domains never get past
\* handle_dns; with 3 nameservers and 6 search domains, once handle_dns is
\* through, /etc/resolv.conf holds the 3 nameserver lines and the search line
\* of the 6 domains, and nothing else.
C10_CapsAndExactResolverFile ==
    DnsOnly =>
      /\ (DnsCount("nameservers") > MAXNS \/ DnsCount("search") > MAXDNSRCH)
           => pc \notin {"finish", "done"}
      /\ (DnsCount("nameservers") = MAXNS /\ DnsCount("search") = MAXDNSRCH
          /\ pc \in {"finish", "done"})
           => resolv = ResolverText

\* the document is { "net": { "interfaces": { <ifname>: {...} } } }
OneInterface ==
    /\ HasDoc /\ Len(root.v) = 1
    /\ root.v[1].n = "net" /\ root.v[1].d = "jobject" /\ Len(root.v[1].v) = 1
    /\ root.v[1].v[1].n = "interfaces" /\ root.v[1].v[1].d = "jobject"
    /\ Len(root.v[1].v[1].v) = 1
    /\ root.v[1].v[1].v[1].d = "jobject"

TheInterface == root.v[1].v[1].v[1]

\* the entries of the interface's addrs array
AddrsOf(if) ==
    IF LastNamed(if, "addrs") = JNil \/ LastNamed(if, "addrs").d # "jarray" THEN <<>>
    ELSE LastNamed(if, "addrs").v

\* a type, method or addr that is there is a string
StringKeys(a) ==
    /\ a.d = "jobject"
    /\ \A k \in 1..Len(a.v) :
         a.v[k].n \in {"type", "method", "addr"} => a.v[k].d = "jstring"

Has(a, name, str) == LastNamed(a, name) # JNil /\ LastNamed(a, name).s = str

IsInetStatic(a) == Has(a, "type", "inet") /\ Has(a, "method", "static")

HasSlash(str) == \E p \in 1..Len(str) : SubSeq(str, p, p) = "/"

FirstSlash(str) ==
    CHOOSE p \in 1..Len(str) :
      /\ SubSeq(str, p, p) = "/"
      /\ \A q \in 1..p - 1 : SubSeq(str, q, q) # "/"

IsDecimal(str) == \E n \in 0..128 : ToString(n) = str
DecimalOf(str) == CHOOSE n \in 0..128 : ToString(n) = str

Ipv4StaticCalls ==
    SelectSeq(log, LAMBDA e : e.op = "rump_pub_netconfig_ipv4_ifaddr_cidr")

\* C11: the inet/static entries of an interface give, one for one and in
\* order, the calls of rump_pub_netconfig_ipv4_ifaddr_cidr: the interface
\* name, the text of addr before its first '/', and the number after it; an
\* inet/static entry whose addr has no '/' is never got past.
C11_StaticIpv4Call ==
    (OneInterface /\ \A k \in 1..Len(AddrsOf(TheInterface)) :
                        StringKeys(AddrsOf(TheInterface)[k])) =>
      LET entries == SelectSeq(AddrsOf(TheInterface), IsInetStatic)
      IN /\ Len(Ipv4StaticCalls) <= Len(entries)
         /\ pc \in {"finish", "done"} => Len(Ipv4StaticCalls) = Len(entries)
         /\ \A k \in 1..Len(Ipv4StaticCalls) :
              LET cidr == LastNamed(entries[k], "addr").s
                  p == FirstSlash(cidr)
                  rest == SubSeq(cidr, p + 1, Len(cidr))
                  args == Ipv4StaticCalls[k].args
              IN /\ LastNamed(entries[k], "addr") # JNil
                 /\ HasSlash(cidr)
                 /\ args[1] = TheInterface.n
                 /\ args[2] = SubSeq(cidr, 1, p - 1)
                 /\ IsDecimal(rest) => args[3] = DecimalOf(rest)
         /\ (\E k \in 1..Len(entries) :
               \/ LastNamed(entries[k], "addr") = JNil
               \/ ~HasSlash(LastNamed(entries[k], "addr").s))
              => pc \notin {"finish", "done"}

\* "10.0.0.5/24" and then "10.1.2.3/8/9" were configured on xen0
C11_Witness ==
    /\ OneInterface
    /\ pc = "finish"
    /\ Len(Ipv4StaticCalls) = 2
    /\ Ipv4StaticCalls[1].args = <<"xen0", "10.0.0.5", 24>>
    /\ Ipv4StaticCalls[1].ok
    /\ Ipv4StaticCalls[2].args[2] = "10.1.2.3"

\* the boot plan the TAILQ_INSERT_TAIL entries of the log make
PlanOfLog ==
    LET ins == SelectSeq(log, LAMBDA e : e.op = "TAILQ_INSERT_TAIL")
    IN [k \in 1..Len(ins) |-> ins[k].args[1]]

\* C12: errx is the last thing a run does: no effect follows it in the log
\* and no step is taken after it; no step removes an earlier effect (a log
\* entry, a boot plan entry, an environment variable, a directory, a device
\* node), and the boot plan is at all times the one the appends made so far
\* give, the abort of the final pipe check included.
C12_AbortKeepsEarlierEffects ==
    /\ [](/\ \A a \in 1..Len(log) :
               log[a].op = "errx" => a = Len(log) /\ pc = "fatal"
          /\ pc = "fatal" => Len(log) > 0 /\ log[Len(log)].op = "errx"
                             /\ log[Len(log)].args = <<diag>>
          /\ rumprun_execs = PlanOfLog)
    /\ [][/\ pc # "fatal"
          /\ IsPrefix(log, log')
          /\ IsPrefix(rumprun_execs, rumprun_execs')
          /\ \A x \in DOMAIN environ : x \in DOMAIN environ'
          /\ dirs \subseteq dirs'
          /\ nodes \subseteq nodes']_vars

\* the pipe check aborted a run that had written a sysctl and built a plan
C12_Witness ==
    /\ pc = "fatal"
    /\ diag = "rumprun_config: last rc entry may not output to pipe"
    /\ Len(rumprun_execs) > 0
    /\ \E a \in 1..Len(log) : log[a].op = "rumprun_sysctlw" /\ log[a].ok
    /\ log[Len(log)].op = "errx"

\* a log entry that is a call of an external capability: network
\* configuration, etfs registration, device node creation, mount, sysctl
\* write, setenv
IsCapability(e) ==
    e.op \in {"rump_pub_netconfig_ifcreate", "rump_pub_netconfig_dhcp_ipv4_oneshot",
              "rump_pub_netconfig_ipv4_ifaddr_cidr", "rump_pub_netconfig_auto_ipv6",
              "rump_pub_netconfig_ipv6_ifaddr", "rump_pub_netconfig_ipv4_gw",
              "rump_pub_netconfig_ipv6_gw", "rump_pub_etfs_register",
              "mknod", "mount", "rumprun_sysctlw", "setenv"}

\* a file system type mount_blk tries before the last one
Probing(e) == e.op = "mount" /\ e.args[1] \in {"MOUNT_FFS", "MOUNT_EXT2FS"}

\* C13 (as amended): a capability call that fails is followed by errx and by
\* nothing else, unless it is mount_blk's mount of FFS or of EXT2FS: a failed
\* mount of FFS is followed by the mount of EXT2FS on the same mount point and
\* a failed mount of EXT2FS by the mount of CD9660.
C13_FailureIsFatalUnlessProbing ==
    \A a \in 1..Len(log) :
      (IsCapability(log[a]) /\ ~log[a].ok) =>
        /\ ~Probing(log[a]) =>
             /\ a + 1 = Len(log)
             /\ log[a + 1].op = "errx"
             /\ pc = "fatal"
        /\ Probing(log[a]) =>
             /\ a < Len(log)
             /\ log[a + 1].op = "mount"
             /\ log[a + 1].args[2] = log[a].args[2]
             /\ log[a + 1].args[1] = (IF log[a].args[1] = "MOUNT_FFS"
                                      THEN "MOUNT_EXT2FS" ELSE "MOUNT_CD9660")

\* C13 (as claimed): no call follows a call that failed
C13_NoCallAfterFailedCall ==
    \A a, b \in 1..Len(log) :
      (a < b /\ IsCapability(log[a]) /\ ~log[a].ok) => ~IsCapability(log[b])

\* the three file system types were tried on "/" and the third failure was
\* fatal
C13_Witness ==
    /\ pc = "fatal"
    /\ \E a \in 1..Len(log) :
         /\ a + 3 = Len(log)
         /\ \A k \in 0..2 : log[a + k].op = "mount" /\ ~log[a + k].ok
         /\ log[a].args[1] = "MOUNT_FFS"
         /\ log[a + 2].args[1] = "MOUNT_CD9660"
         /\ log[a + 3].op = "errx"

\* the names of a handler table
NamesOf(h) == {h[j].name : j \in 1..Len(h)}

\* object v without the pairs its table does not name
Known(v, h) == [v EXCEPT !.v = SelectSeq(v.v, LAMBDA i : i.n \in NamesOf(h))]

\* the document without the pairs no table names, in the root and in every
\* net and netbsd object of the root
Stripped(rt) ==
    LET r == Known(rt, handlers_root)
    IN [r EXCEPT !.v = [k \in 1..Len(r.v) |->
          IF r.v[k].d # "jobject" THEN r.v[k]
          ELSE IF r.v[k].n = "net" THEN Known(r.v[k], handlers_net)
          ELSE IF r.v[k].n = "netbsd" THEN Known(r.v[k], handlers_netbsd)
          ELSE r.v[k]]]

\* all a run does but warn
Acts(s) ==
    [plan |-> s.execs, fatal |-> s.fatal, msg |-> s.msg,
     actions |-> SelectSeq(s.log, LAMBDA e : e.op # "warnx")]

\* the warnings pass 1 of handle_object gives at loc for object v
Pass1Warnings(v, h, loc) ==
    LET unknown == SelectSeq(v.v, LAMBDA i : i.n \notin NamesOf(h))
    IN [k \in 1..Len(unknown) |->
          loc \o ": no match for key \"" \o unknown[k].n \o "\", ignored"]

IsPass1Warning(e, loc) ==
    /\ e.op = "warnx"
    /\ Len(e.args[1]) >= Len(loc) + 14
    /\ SubSeq(e.args[1], 1, Len(loc) + 14) = loc \o ": no match for"

\* the messages of the pass 1 warnings at loc, in the order given
WarningsAt(loc) ==
    LET w == SelectSeq(log, LAMBDA e : IsPass1Warning(e, loc))
    IN [k \in 1..Len(w) |-> w[k].args[1]]

\* the one pair of the root named name, when there is exactly one and it is
\* an object; JNil otherwise
Only(name) ==
    LET hit == SelectSeq(RootPairsOf, LAMBDA i : i.n = name)
    IN IF Len(hit) = 1 /\ hit[1].d = "jobject" THEN hit[1] ELSE JNil

\* the warnings of pass 1 at loc come before everything else logged under
\* key (said of a key the root holds once)
WarningsFirst(loc, key) ==
    \A a, b \in 1..Len(log) :
      (a < b /\ log[a].by = key /\ ~IsPass1Warning(log[a], loc))
        => ~(log[b].by = key /\ IsPass1Warning(log[b], loc))

\* C14: a pair no table names gives a warning and nothing else.  Pass 1 on the
\* root only appends warnings to the log and never ends the run; the warnings
\* of an object (root, net, netbsd) name its unknown keys in order and come
\* before anything its handlers do; and the run of the document without its
\* unknown pairs does the same things, builds the same boot plan and ends the
\* same way.
C14_UnknownKeysOnlyWarn ==
    /\ [][pc = "handle_object" =>
            /\ UNCHANGED <<rumprun_execs, environ, dirs, resolv, nodes>>
            /\ IsPrefix(log, log')
            /\ \A a \in Len(log) + 1..Len(log') : log'[a].op = "warnx"
            /\ pc' # "fatal"]_vars
    /\ []((HasDoc /\ pc \notin {"start", "handle_object"}) =>
            /\ WarningsAt("rumprun_config")
                 = Pass1Warnings(root, handlers_root, "rumprun_config")
            /\ \A a, b \in 1..Len(log) :
                 (a < b /\ IsPass1Warning(log[b], "rumprun_config"))
                   => IsPass1Warning(log[a], "rumprun_config")
            /\ Only("net") # JNil => WarningsFirst("handle_net", "net")
            /\ Only("netbsd") # JNil => WarningsFirst("handle_netbsd", "netbsd")
            /\ (Only("net") # JNil /\ pc \in {"finish", "done"}) =>
                 WarningsAt("handle_net")
                   = Pass1Warnings(Only("net"), handlers_net, "handle_net")
            /\ (Only("netbsd") # JNil /\ pc \in {"finish", "done"}) =>
                 WarningsAt("handle_netbsd")
                   = Pass1Warnings(Only("netbsd"), handlers_netbsd, "handle_netbsd"))
    /\ []((HasDoc /\ pc \in {"done", "fatal"}) =>
            /\ \A junk \in Junk :
                 Acts(rumprun_config(cmdline, Stripped(root), Boot(NoFile, junk)))
                   = Acts(rumprun_config(cmdline, root, Boot(NoFile, junk)))
            /\ pc = "done" => \E junk \in Junk :
                 rumprun_config(cmdline, Stripped(root), Boot(NoFile, junk)).execs
                   = rumprun_execs)

\* a run that returned after warning about unknown keys of the root, of net
\* and of netbsd and acting on the known ones
C14_Witness ==
    /\ pc = "done"
    /\ Len(WarningsAt("rumprun_config")) > 0
    /\ Len(WarningsAt("handle_net")) = 2
    /\ Len(WarningsAt("handle_netbsd")) = 2
    /\ \E a \in 1..Len(log) : log[a].op = "rump_pub_netconfig_ipv4_gw" /\ log[a].ok
    /\ \E a \in 1..Len(log) : log[a].op = "rumprun_sysctlw" /\ log[a].ok
    /\ Stripped(root) # root

\* an rc element with a key handle_bin does not know, in the element or in
\* one of its netbsd objects
HasUnknownKey(e) ==
    /\ e.d = "jobject"
    /\ \E k \in 1..Len(e.v) :
         \/ e.v[k].n \notin {"bin", "argv", "runmode", "workdir", "netbsd"}
         \/ /\ e.v[k].n = "netbsd" /\ e.v[k].d = "jobject"
            /\ \E j \in 1..Len(e.v[k].v) : e.v[k].v[j].n # "sysctl"

UnexpectedKey == Len(diag) >= 15 /\ SubSeq(diag, 1, 15) = "unexpected key "

\* C15: an rc element with an unknown key, or with an unknown key in a netbsd
\* object, is never appended and the run never gets past it; when the run ends
\* on such a key, the element it ends on is the one after the entries
\* appended, and those entries are the ones of the elements before it.
C15_UnknownRcKeyIsFatal ==
    /\ \A k \in 1..Len(RcElements) :
         HasUnknownKey(RcElements[k]) =>
           /\ Len(rumprun_execs) < k
           /\ pc \notin {"finish", "done"}
    /\ (pc = "fatal" /\ UnexpectedKey) =>
         /\ Len(rumprun_execs) < Len(RcElements)
         /\ HasUnknownKey(RcElements[Len(rumprun_execs) + 1])
         /\ \A k \in 1..Len(rumprun_execs) :
              /\ ~HasUnknownKey(RcElements[k])
              /\ EntryFollows(rumprun_execs[k], RcElements[k])

\* the run ended on the unknown key "cpu" of the second element's netbsd
\* object, the entry of the first element in the plan
C15_Witness ==
    /\ pc = "fatal"
    /\ diag = "unexpected key \"cpu\" in \"handle_bin\""
    /\ Len(RcElements) = 2
    /\ Len(rumprun_execs) = 1
    /\ rumprun_execs[1].rre_argv = <<"b", "-v", NULL>>

\* C16: every entry handle_bin appends runs the main of the registry program
\* its element's bin names, or the main of the first registry program when
\* bin is "*"; and a run that does not append ends with a diagnostic of errx,
\* never with a fault.
C16_BinBoundOrCleanFatal ==
    /\ PlanFromRc =>
         \A k \in 1..Len(rumprun_execs) :
           LET bin == LastNamed(RcElements[k], "bin").s
           IN \/ \E i \in 1..Len(rumprun_bins) :
                   /\ rumprun_bins[i].binname = bin
                   /\ rumprun_execs[k].rre_main = rumprun_bins[i].main
              \/ /\ bin = "*"
                 /\ Len(rumprun_bins) > 0
                 /\ rumprun_execs[k].rre_main = rumprun_bins[1].main
    /\ pc = "fatal" => diag # "<fault>"

\* the sysctl object of a document of one of the two shapes
TheSysctlObject ==
    IF RootSysctlOnly THEN root.v[1].v[1] ELSE SysctlObjectOf(RcElements[1])

\* nothing was made of the sysctl object: no sysctl was written, no entry
\* appended, and the run did not get past the object
NothingProduced ==
    /\ SysctlLog = <<>>
    /\ rumprun_execs = <<>>
    /\ pc \notin {"finish", "done"}

\* as many assignments as pairs were made of the sysctl object
AllProduced ==
    /\ (RootSysctlOnly /\ pc \in {"finish", "done"}) =>
         Len(SysctlLog) = Len(TheSysctlObject.v)
    /\ (RcSysctlOnly /\ PlanFromRc /\ Len(rumprun_execs) = 1) =>
         rumprun_execs[1].rre_nsc = Len(TheSysctlObject.v)

\* C17 (as amended): a sysctl object with a null, an array or an object among
\* its values is fatal and nothing is made of it; a number is taken as a
\* boolean or a string is, and gives an assignment.
C17_NullArrayObjectAreFatal ==
    (RootSysctlOnly \/ RcSysctlOnly) =>
      IF \E k \in 1..Len(TheSysctlObject.v) :
           TheSysctlObject.v[k].d \in {"jnull", "jarray", "jobject"}
      THEN NothingProduced
      ELSE AllProduced

\* C17 (as claimed): any value that is neither a boolean nor a string is fatal
C17_NonBooleanNonStringIsFatal ==
    (RootSysctlOnly \/ RcSysctlOnly) =>
      IF \E k \in 1..Len(TheSysctlObject.v) :
           TheSysctlObject.v[k].d \notin {"jtrue", "jfalse", "jstring"}
      THEN NothingProduced
      ELSE AllProduced

\* the run ended on the null after a string: the string was not written
C17_Witness ==
    /\ RootSysctlOnly
    /\ pc = "fatal"
    /\ Len(TheSysctlObject.v) = 2
    /\ TheSysctlObject.v[1].d = "jstring"
    /\ TheSysctlObject.v[2].d = "jnull"
    /\ diag = "invalid type for key \"kern.e\" in \"sysctl_parse\""
    /\ SysctlLog = <<>>

\* the document is { "net": {...} } and nothing else
NetOnly ==
    /\ HasDoc /\ Len(root.v) = 1
    /\ root.v[1].n = "net" /\ root.v[1].d = "jobject"

TheNet == root.v[1]

\* the entries of the net object's gateways array
GatewaysOf(net) ==
    IF LastNamed(net, "gateways") = JNil \/ LastNamed(net, "gateways").d # "jarray"
    THEN <<>>
    ELSE LastNamed(net, "gateways").v

\* the interface objects of the net object
InterfacesOf(net) ==
    IF LastNamed(net, "interfaces") = JNil \/ LastNamed(net, "interfaces").d # "jobject"
    THEN <<>>
    ELSE LastNamed(net, "interfaces").v

\* some key of names has, in the entry a, a value that is not a string
WrongKind(a, names) ==
    /\ a.d = "jobject"
    /\ \E k \in 1..Len(a.v) : a.v[k].n \in names /\ a.v[k].d # "jstring"

IsGatewayCall(e) ==
    e.op \in {"rump_pub_netconfig_ipv4_gw", "rump_pub_netconfig_ipv6_gw"}

IsInterfaceCall(e) ==
    e.op \in {"rump_pub_netconfig_ifcreate", "rump_pub_netconfig_dhcp_ipv4_oneshot",
              "rump_pub_netconfig_ipv4_ifaddr_cidr", "rump_pub_netconfig_auto_ipv6",
              "rump_pub_netconfig_ipv6_ifaddr"}

IsResolverWrite(e) == e.op \in {"open", "write"} /\ e.args[1] = "/etc/resolv.conf"

\* C18: a type, method or addr of an address entry, or a type or addr of a
\* gateway entry, that is not a string ends the run before the net object is
\* done with, and no route is added with an address that is not the text of
\* a string "addr" of the gateways array.
C18_WrongKindIsFatalBeforeUse ==
    NetOnly =>
      /\ (\/ \E k \in 1..Len(GatewaysOf(TheNet)) :
                WrongKind(GatewaysOf(TheNet)[k], {"type", "addr"})
          \/ \E i \in 1..Len(InterfacesOf(TheNet)) :
               \E k \in 1..Len(AddrsOf(InterfacesOf(TheNet)[i])) :
                 WrongKind(AddrsOf(InterfacesOf(TheNet)[i])[k],
                           {"type", "method", "addr"}))
           => pc \notin {"finish", "done"}
      /\ \A n \in 1..Len(log) :
           IsGatewayCall(log[n]) =>
             \E k \in 1..Len(GatewaysOf(TheNet)) :
               LET addr == LastNamed(GatewaysOf(TheNet)[k], "addr")
               IN addr # JNil /\ addr.d = "jstring" /\ addr.s = log[n].args[1]

\* C19: of the things one net object makes the program do, what is done to
\* the interfaces comes before every route added for a gateway, and both come
\* before the resolver file is opened and written, in whatever order the
\* object gives "interfaces", "gateways" and "dns".
C19_InterfacesGatewaysDns ==
    NetOnly =>
      \A a, b \in 1..Len(log) :
        /\ (IsInterfaceCall(log[b]) /\ IsGatewayCall(log[a])) => b < a
        /\ (IsGatewayCall(log[b]) /\ IsResolverWrite(log[a])) => b < a
        /\ (IsInterfaceCall(log[b]) /\ IsResolverWrite(log[a])) => b < a

\* dns first, gateways second, interfaces last in the text, and all three done
C19_Witness ==
    /\ NetOnly /\ pc = "finish"
    /\ Len(TheNet.v) = 3
    /\ TheNet.v[1].n = "dns" /\ TheNet.v[2].n = "gateways"
    /\ TheNet.v[3].n = "interfaces"
    /\ \E a, b, c \in 1..Len(log) :
         /\ a < b /\ b < c
         /\ IsInterfaceCall(log[a]) /\ IsGatewayCall(log[b]) /\ IsResolverWrite(log[c])

NoAddrs(ifname) ==
    "handle_interface: no addresses configured for interface \"" \o ifname \o "\""

\* the capability that configures the address entry a
AddrOp(a) ==
    IF Has(a, "type", "inet")
    THEN IF Has(a, "method", "dhcp") THEN "rump_pub_netconfig_dhcp_ipv4_oneshot"
         ELSE "rump_pub_netconfig_ipv4_ifaddr_cidr"
    ELSE IF Has(a, "method", "auto") THEN "rump_pub_netconfig_auto_ipv6"
         ELSE "rump_pub_netconfig_ipv6_ifaddr"

\* what one interface object asks for: its creation when "create" is true,
\* then one configuration for each entry of "addrs" in the order of the
\* array, or the warning when there is no "addrs"
PlanOfInterface(if) ==
    (IF LastNamed(if, "create") # JNil /\ LastNamed(if, "create").d = "jtrue"
     THEN <<<<"rump_pub_netconfig_ifcreate", if.n>>>>
     ELSE <<>>)
    \o (IF LastNamed(if, "addrs") = JNil
        THEN <<<<"warnx", NoAddrs(if.n)>>>>
        ELSE [k \in 1..Len(AddrsOf(if)) |-> <<AddrOp(AddrsOf(if)[k]), if.n>>])

RECURSIVE PlanOfInterfaces(_, _)
PlanOfInterfaces(ifs, k) ==
    IF k > Len(ifs) THEN <<>>
    ELSE PlanOfInterface(ifs[k]) \o PlanOfInterfaces(ifs, k + 1)

\* what was done to the interfaces, in the order of the log: the capability
\* and the interface of each call, and the warnings of no address
InterfaceActs ==
    LET is(e) == \/ IsInterfaceCall(e)
                 \/ /\ e.op = "warnx"
                    /\ \E i \in 1..Len(InterfacesOf(TheNet)) :
                         e.args[1] = NoAddrs(InterfacesOf(TheNet)[i].n)
        acts == SelectSeq(log, is)
    IN [k \in 1..Len(acts) |-> <<acts[k].op, acts[k].args[1]>>]

\* C20: what is done to the interfaces is, at any time, the beginning of the
\* plan of the interfaces object (each interface in turn: its creation exactly
\* when "create" is true and before its addresses, its addresses in the order
\* of "addrs", a warning and nothing else when it has no "addrs"), and the
\* whole plan once the program has gone on to gateways, dns or the end.
C20_InterfacePlan ==
    NetOnly =>
      /\ IsPrefix(InterfaceActs, PlanOfInterfaces(InterfacesOf(TheNet), 1))
      /\ (\/ pc \in {"finish", "done"}
          \/ \E n \in 1..Len(log) : IsGatewayCall(log[n]) \/ IsResolverWrite(log[n]))
           => InterfaceActs = PlanOfInterfaces(InterfacesOf(TheNet), 1)

\* tap0 is created and has no addresses, tap1 is not created and gets its
\* address, and the gateway is added after both
C20_Witness ==
    /\ NetOnly /\ pc = "finish"
    /\ Len(InterfacesOf(TheNet)) = 2
    /\ InterfacesOf(TheNet)[1].n = "tap0"
    /\ InterfacesOf(TheNet)[2].n = "tap1"
    /\ InterfaceActs = <<<<"rump_pub_netconfig_ifcreate", "tap0">>,
                         <<"warnx", NoAddrs("tap0")>>,
                         <<"rump_pub_netconfig_ipv4_ifaddr_cidr", "tap1">>>>
    /\ \E n \in 1..Len(log) : IsGatewayCall(log[n])

\* the entry a names one of the four combinations of type and method, and
\* for "static" an addr with a '/' in it
Accepted(a) ==
    /\ \/ Has(a, "type", "inet") /\ (Has(a, "method", "dhcp") \/ Has(a, "method", "static"))
       \/ Has(a, "type", "inet6") /\ (Has(a, "method", "auto") \/ Has(a, "method", "static"))
    /\ Has(a, "method", "static") =>
         LastNamed(a, "addr") # JNil /\ HasSlash(LastNamed(a, "addr").s)

\* how many entries of as come before the first that is not accepted
RECURSIVE AcceptedRun(_, _)
AcceptedRun(as, k) ==
    IF k > Len(as) \/ ~Accepted(as[k]) THEN 0 ELSE 1 + AcceptedRun(as, k + 1)

\* the address capabilities called, in the order of the log
AddrCalls ==
    LET calls == SelectSeq(log, LAMBDA e : IsInterfaceCall(e)
                                           /\ e.op # "rump_pub_netconfig_ifcreate")
    IN [k \in 1..Len(calls) |-> calls[k].op]

\* C21: the address capabilities called for an interface are, call for call,
\* those of its entries that name (inet, dhcp), (inet, static), (inet6, auto)
\* or (inet6, static), up to the first entry that names anything else, lacks
\* type or method, or is static with no usable addr: that entry ends the run,
\* and neither it nor any entry after it has a capability called.
C21_OnlyFourCombinations ==
    (OneInterface /\ \A k \in 1..Len(AddrsOf(TheInterface)) :
                        StringKeys(AddrsOf(TheInterface)[k])) =>
      LET as == AddrsOf(TheInterface)
          n == AcceptedRun(as, 1)
      IN /\ IsPrefix(AddrCalls, [k \in 1..n |-> AddrOp(as[k])])
         /\ pc \in {"finish", "done"} =>
              n = Len(as) /\ AddrCalls = [k \in 1..n |-> AddrOp(as[k])]
         /\ n < Len(as) => pc \notin {"finish", "done"}

\* dhcp was run for the first entry, and the run ended on (inet6, dhcp)
C21_Witness ==
    /\ OneInterface
    /\ pc = "fatal"
    /\ Len(AddrsOf(TheInterface)) = 2
    /\ Has(AddrsOf(TheInterface)[1], "type", "inet")
    /\ Has(AddrsOf(TheInterface)[1], "method", "dhcp")
    /\ Has(AddrsOf(TheInterface)[2], "type", "inet6")
    /\ Has(AddrsOf(TheInterface)[2], "method", "dhcp")
    /\ AddrCalls = <<"rump_pub_netconfig_dhcp_ipv4_oneshot">>
    /\ log[Len(log) - 1].ok
    /\ diag = "config_ipv6: xen0: method \"static\" or \"auto\" expected, got \"dhcp\""

\* the dns object has neither "nameservers" nor "search"
NoDnsKeys ==
    /\ LastNamed(root.v[1].v[1], "nameservers") = JNil
    /\ LastNamed(root.v[1].v[1], "search") = JNil

\* C22: with neither "nameservers" nor "search" no step changes
\* /etc/resolv.conf; with either, once handle_dns is through, the file holds
\* the nameserver lines in order and then the search line, and nothing else,
\* whatever it held before.
C22_ResolverFileIsTheLines ==
    /\ []((DnsOnly /\ ~NoDnsKeys /\ pc \in {"finish", "done"})
            => resolv = ResolverText)
    /\ [][(DnsOnly /\ NoDnsKeys) => resolv' = resolv]_vars

\* the document has one "mount" pair, an object of one entry that is an object
OneMount ==
    /\ HasDoc
    /\ Only("mount") # JNil
    /\ Len(Only("mount").v) = 1
    /\ Only("mount").v[1].d = "jobject"

TheMount == Only("mount").v[1]

\* what the mount handler did, in order
MountLog == SelectSeq(log, LAMBDA e : e.by = "mount")

Mkdirs ==
    LET mk == SelectSeq(MountLog, LAMBDA e : e.op = "mkdir")
    IN [k \in 1..Len(mk) |-> mk[k].args[1]]

Mounts == SelectSeq(MountLog, LAMBDA e : e.op = "mount")

\* the directories of a mount point from the root to the leaf: the text up
\* to the end of each of its segments
Segments(mp) ==
    LET ends == SelectSeq([p \in 1..Len(mp) |-> p],
                          LAMBDA p : \/ p = Len(mp)
                                     \/ /\ SubSeq(mp, p, p) # "/"
                                        /\ SubSeq(mp, p + 1, p + 1) = "/")
    IN [k \in 1..Len(ends) |-> SubSeq(mp, 1, ends[k])]

\* the mount handler was run and came back
MountDone ==
    \/ pc \in {"finish", "done"}
    \/ pc = "pass2" /\ hj > RootRank("mount")

ProbeOrder == <<"MOUNT_FFS", "MOUNT_EXT2FS", "MOUNT_CD9660">>

\* C23: for a mount entry, the directories made are those of the mount point
\* from the root to the leaf, all of them before the first mount attempt, and
\* a directory that exists does not end the run; for source "blk" with a path
\* the attempts are FFS, EXT2FS, CD9660 (read-only) on that path and mount
\* point, each made only after the one before it failed, the handler comes
\* back exactly when one succeeded; without a path, without a source or with
\* a source that is not known no mount is attempted and the run ends.
C23_MkdirThenProbeInOrder ==
    OneMount =>
      LET mp == TheMount.n
          source == LastNamed(TheMount, "source")
          path == LastNamed(TheMount, "path")
      IN /\ IsPrefix(Mkdirs, Segments(mp))
         /\ Mounts # <<>> => Mkdirs = Segments(mp)
         /\ \A a, b \in 1..Len(MountLog) :
              (a < b /\ MountLog[a].op = "mount") => MountLog[b].op # "mkdir"
         /\ \A a \in 1..Len(MountLog) :
              (MountLog[a].op = "mkdir" /\ MountLog[a].errno = "EEXIST"
               /\ a < Len(MountLog))
                => ~(/\ MountLog[a + 1].op = "errx"
                     /\ Len(MountLog[a + 1].args[1]) >= 9
                     /\ SubSeq(MountLog[a + 1].args[1], 1, 9) = "mkdirhier")
         /\ (source # JNil /\ source.s = "blk" /\ path # JNil) =>
              /\ Len(Mounts) <= Len(ProbeOrder)
              /\ \A k \in 1..Len(Mounts) :
                   /\ Mounts[k].args[1] = ProbeOrder[k]
                   /\ Mounts[k].args[2] = mp
                   /\ Mounts[k].args[3] = (IF k = 3 THEN "MNT_RDONLY" ELSE "0")
                   /\ Mounts[k].args[4] = path.s
                   /\ k < Len(Mounts) => ~Mounts[k].ok
              /\ MountDone => Mounts # <<>> /\ Mounts[Len(Mounts)].ok
              /\ (Mounts # <<>> /\ Mounts[Len(Mounts)].ok) =>
                   \A a \in 1..Len(MountLog) : MountLog[a].op # "errx"
              /\ (Len(Mounts) = 3 /\ ~Mounts[3].ok) =>
                   pc = "fatal" /\ MountLog[Len(MountLog)].op = "errx"
         /\ (\/ source = JNil
             \/ source # JNil /\ source.s \notin {"blk", "kernfs", "tmpfs"}
             \/ source # JNil /\ source.s = "blk" /\ path = JNil)
              => Mounts = <<>> /\ ~MountDone

\* /data and /data/db were made, FFS failed and EXT2FS mounted
C23_Witness ==
    /\ OneMount
    /\ pc = "finish"
    /\ TheMount.n = "/data/db"
    /\ Mkdirs = <<"/data", "/data/db">>
    /\ Len(Mounts) = 2
    /\ Mounts[1].args[1] = "MOUNT_FFS" /\ ~Mounts[1].ok
    /\ Mounts[2].args[1] = "MOUNT_EXT2FS" /\ Mounts[2].ok

\* the document is { "blk": { "vnd<N>": {...} } }, one device of type vnd
OneVnd ==
    /\ HasDoc /\ Len(root.v) = 1
    /\ root.v[1].n = "blk" /\ root.v[1].d = "jobject" /\ Len(root.v[1].v) = 1
    /\ root.v[1].v[1].n \in {"vnd0", "vnd1"}
    /\ Has(root.v[1].v[1], "type", "vnd")

TheVnd == root.v[1].v[1]

Ioctls == SelectSeq(log, LAMBDA e : e.op = "ioctl")

\* C24: with the unit 0 nodes there, whatever else the device namespace
\* holds, configvnd ends the run only when the environment fails one of its
\* calls, and then at once; mknod is never called for a node that is there;
\* and when it is through, the host file has been bound once, read-only, to
\* the raw node of the unit.
C24_VndNodesCreatedIfAbsent ==
    OneVnd =>
      /\ pc = "fatal" => \E a \in 1..Len(log) : log[a].errno = "EIO"
      /\ \A a \in 1..Len(log) :
           /\ log[a].op = "mknod" => log[a].errno # "EEXIST"
           /\ log[a].errno = "EIO" => a < Len(log) /\ log[a + 1].op = "errx"
      /\ pc \in {"finish", "done"} =>
           /\ Len(Ioctls) = 1
           /\ Ioctls[1].args = <<"VNDIOCSET", "/dev/r" \o TheVnd.n \o "d",
                                 LastNamed(TheVnd, "path").s, "VNDIOF_READONLY">>
           /\ "/dev/r" \o TheVnd.n \o "d" \in nodes

\* C25: every entry of the boot plan has its argument vector ended by NULL
\* with argc its length, and as many sysctl assignments as its count says;
\* an entry made from an rc element has the workdir of the element or none,
\* and an entry made from the registry has no workdir and no assignments.
C25_EveryFieldAssigned ==
    \A k \in 1..Len(rumprun_execs) :
      LET rre == rumprun_execs[k]
      IN /\ rre.rre_argc = Len(rre.rre_argv) - 1
         /\ rre.rre_argv[Len(rre.rre_argv)] = NULL
         /\ rre.rre_nsc = Len(rre.rre_sc)
         /\ IF PlanFromRc
            THEN rre.rre_workdir = WorkdirOf(RcElements[k])
            ELSE /\ rre.rre_workdir = NULL
                 /\ rre.rre_sc = <<>>
                 /\ rre.rre_nsc = 0
====
